---- MODULE Spec2Model ----
(***************************************************************************)
(* A model of the rendering core of the mp3-to-video generator             *)
(* (src/script.js, class VideoGenerator, the media-items variant that      *)
(* starts at line 1858).                                                   *)
(*                                                                         *)
(* Four specifications share the variables:                                *)
(*   Spec          the capture scheduler (generateVideo / animateVideo /   *)
(*                 stopGeneration / onSettingsChanged) with a clock that   *)
(*                 advances one unit at a time;                            *)
(*   SpecUI        the scheduler together with the preview loop and the    *)
(*                 controls that stay enabled during a capture;            *)
(*   SpecTimeline  renderVideoFrame's clip resolution, applied to bounded  *)
(*                 clip lists and query times;                             *)
(*   SpecSubs      the caption list editing operations and drawSubtitles.  *)
(* Spec and SpecUI start from a project that holds one image and whose     *)
(* duration and frame rate have been set; the settings controls that       *)
(* lockUI disables are not operated afterwards.  generateVideo is split at *)
(* its awaits: GenerateVideo, AnimateVideo, the animate callbacks, Settle  *)
(* and Finally are separate steps of one invocation.                       *)
(*                                                                         *)
(* Time.  Clock values, media times and clip times are counted in clock    *)
(* units of which Second make up one second (the 1000 ms of the code);     *)
(* videoDuration and caption start/duration are whole seconds, as the code *)
(* keeps them (parseInt / parseTime).  The frame rates of the model divide *)
(* Second, so frameTime = 1000/fps and videoTime = currentFrame/fps are    *)
(* exact.                                                                  *)
(***************************************************************************)
EXTENDS Integers, Sequences, FiniteSets, TLC

\* ---------------------------------------------------------------- bounds
MaxNow == 7             \* last clock value reached by Tick
MaxDuration == 2        \* largest value typed into the duration control
MaxSubs == 2            \* captions in the list
MaxSubTime == 6         \* largest caption field value / query second
MaxClips == 3           \* clips in a timeline
MaxStart == 2           \* latest clip start of the enumerated timelines

\* ------------------------------------------------------- program constants
Second == 2             \* 1000 (ms) in `frameTime = 1000 / fps`
MaxCatchUp == 5         \* `if (framesRendered > 5) break`
SmoothSlack == Second   \* `Math.abs(smoothTime - videoTime) > 1.0`
DefaultImageDuration == 2 * Second  \* `item.duration || 2`

FpsOptions == {1, 2}
DurationInputs == -1..MaxDuration

Min(a, b) == IF a < b THEN a ELSE b
Max(a, b) == IF a > b THEN a ELSE b
Abs(a) == IF a < 0 THEN 0 - a ELSE a

VARIABLES
    now,                 \* performance.now() / Date.now()
    videoDuration,       \* this.videoDuration (seconds)
    fpsValue,            \* this.elements.videoFPS.value
    mediaItems,          \* this.mediaItems
    subtitles,           \* this.subtitles
    isGenerating,        \* this.isGenerating
    activeGenerationId,  \* this.activeGenerationId
    uiLocked,            \* the controls disabled by lockUI
    animationStartTime,  \* this.animationStartTime (0 = null / unset)
    previewPlaying,      \* this.previewPlaying
    previewStartTime,    \* this.previewStartTime
    previewCurrentTime,  \* this.previewCurrentTime
    previewAnimation,    \* a preview requestAnimationFrame callback is pending
    runs,                \* the generateVideo invocations and their loops
    calls,               \* the renderVideoFrame calls of the latest step
    query,               \* time argument of the render made by the latest
                         \* step (-1 = the step rendered nothing)
    currentMediaItem,    \* clip index resolved by that renderVideoFrame
    drawn,               \* caption indices drawn by that drawSubtitles
    videoFrameCache,     \* this.videoFrameCache: clip id -> cached frames
    nextId,              \* the next value of `Date.now() + Math.random()`
    pendingVideos,       \* processVideoFile calls that await their frames
    loading,             \* loadProjectFromJSON calls between their awaits
    stages,              \* canvas operations of the latest renderVideoFrame
    effectIntensity,     \* this.elements.effectIntensity.value
    probe,               \* arguments and result of the latest helper call
    currentMediaRecorder,\* this.currentMediaRecorder (run id, 0 = null)
    currentVideoStream,  \* this.currentVideoStream (run id, 0 = null)
    pendingOnload,       \* an `img.onload` draw of drawVideoFrame is pending
    staleImports         \* ids of the imports in flight that a resetProject has overtaken

vars == <<now, videoDuration, fpsValue, mediaItems, subtitles, isGenerating,
          activeGenerationId, uiLocked, animationStartTime, previewPlaying,
          previewStartTime, previewCurrentTime, previewAnimation, runs,
          calls, query, currentMediaItem, drawn, videoFrameCache, nextId,
          pendingVideos, loading, stages, effectIntensity, probe,
          currentMediaRecorder, currentVideoStream, pendingOnload,
          staleImports>>

\* the state of the media library, of the canvas trace and of the helpers
mediaVars == <<videoFrameCache, nextId, pendingVideos, loading, stages,
               effectIntensity, probe, pendingOnload, staleImports>>
\* the recorder and the capture stream of the latest run
recVars == <<currentMediaRecorder, currentVideoStream>>
auxVars == <<mediaVars, recVars>>

projVars == <<mediaItems, subtitles>>
previewVars == <<previewPlaying, previewStartTime, previewCurrentTime,
                 previewAnimation>>
renderVars == <<query, currentMediaItem, drawn>>

RunIds == {1, 2}       \* generateVideo invocations in one behaviour

\* A clip: timestamp and duration in clock units; duration 0 stands for the
\* absent `duration` field of an image.
Image(ts) == [type |-> "image", timestamp |-> ts, duration |-> 0]
Video(ts, d) == [type |-> "video", timestamp |-> ts, duration |-> d]

NoRun == [pc |-> "none", runId |-> 0, fps |-> 1,
          totalFrames |-> 0, currentFrame |-> 0, lastFrameTime |-> 0,
          emitted |-> <<>>, exit |-> "none", abortedBy |-> "none",
          stopped |-> FALSE, pausedPreview |-> FALSE,
          recorder |-> "none", tracksStopped |-> FALSE, published |-> FALSE]


\* ===================================================================
\* The capture scheduler: generateVideo, animateVideo, stopGeneration
\* ===================================================================

FrameTime(fps) == Second \div fps

\* animateVideo.animate: the time handed to drawSubtitles for a frame
SmoothTime(videoTime, currentTime, startTime, duration) ==
    IF startTime # 0
    THEN LET elapsedTime == currentTime - startTime
             smooth == Min(elapsedTime, duration * Second)
         IN  IF Abs(smooth - videoTime) > SmoothSlack THEN videoTime ELSE smooth
    ELSE videoTime

\* renderVideoFrame: `smoothTime !== null ? smoothTime : currentTime`
SubtitleTime(c) == IF c.hasSmooth THEN c.smoothTime ELSE c.currentTime

CaptureCall(r, k, videoTime, smooth) ==
    [src |-> "capture", run |-> r, frame |-> k, currentTime |-> videoTime,
     hasSmooth |-> TRUE, smoothTime |-> smooth]

\* renderPreviewFrame(t), reached from the preview loop ("preview"), from
\* seekPreview ("seek") or from a settings control's input handler ("input")
PreviewCall(from, t) ==
    [src |-> from, run |-> 0, frame |-> 0, currentTime |-> t,
     hasSmooth |-> FALSE, smoothTime |-> 0]

\* animate: `if (!this.isGenerating || this.activeGenerationId !== runId)`
SupersededStale(generating, activeId, runId) == ~generating
Superseded(generating, activeId, runId) == ~generating \/ activeId # runId

\* animate: `while (elapsed >= frameTime && currentFrame < totalFrames)`
LoopContinuesOffByOne(elapsed, frameTime, currentFrame, totalFrames) ==
    elapsed >= frameTime /\ currentFrame <= totalFrames
LoopContinues(elapsed, frameTime, currentFrame, totalFrames) ==
    elapsed >= frameTime /\ currentFrame < totalFrames

\* animate: `if (framesRendered > 5) break`, tested after the increment
CapReachedLate(framesRendered) == framesRendered > MaxCatchUp + 1
CapReached(framesRendered) == framesRendered > MaxCatchUp

\* animate: the catch-up loop.  st = the loop's locals and the samples it
\* has handed to renderVideoFrame; currentTime is the callback's timestamp.
RECURSIVE AnimateLoop(_, _, _, _)
AnimateLoop(st, run, currentTime, startTime) ==
    LET frameTime == FrameTime(run.fps) IN
    IF LoopContinues(st.elapsed, frameTime, st.currentFrame, run.totalFrames)
    THEN LET videoTime == st.currentFrame * frameTime
             smooth == SmoothTime(videoTime, currentTime, startTime, videoDuration)
             st2 == [elapsed |-> st.elapsed - frameTime,
                     currentFrame |-> st.currentFrame + 1,
                     lastFrameTime |-> st.lastFrameTime + frameTime,
                     framesRendered |-> st.framesRendered + 1,
                     out |-> Append(st.out,
                               CaptureCall(run.runId, st.currentFrame, videoTime, smooth))]
         IN  IF CapReached(st2.framesRendered)
             THEN st2
             ELSE AnimateLoop(st2, run, currentTime, startTime)
    ELSE st

FreeRun == CHOOSE r \in RunIds :
               /\ runs[r].pc = "none"
               /\ \A q \in RunIds : q < r => runs[q].pc # "none"

\* lockUI / unlockUI: the preview buttons and the settings controls
LockUI == TRUE
UnlockUI == FALSE

\* generateVideo: `if (this.previewPlaying) this.pausePreview()`
KeepPreview(playing) == playing
PausePreviewIfPlaying(playing) == IF playing THEN FALSE ELSE playing

\* `stream.getTracks().forEach(t => t.stop())` on the stream that
\* this.currentVideoStream refers to (the capture stream of run id)
StopTracks(rs, id) ==
    [r \in RunIds |->
        IF id # 0 /\ rs[r].runId = id /\ rs[r].pc # "none"
        THEN [rs[r] EXCEPT !.tracksStopped = TRUE]
        ELSE rs[r]]

\* mediaRecorder.stop() on the recorder of run id: a recording recorder
\* becomes inactive with its stop event pending ("stopping"); on an inactive
\* one the call changes nothing
StopRecorder(rs, id) ==
    [r \in RunIds |->
        IF id # 0 /\ rs[r].runId = id /\ rs[r].recorder = "recording"
        THEN [rs[r] EXCEPT !.recorder = "stopping"]
        ELSE rs[r]]

\* The Generate button while no run is marked generating: generateVideo up
\* to its first await; the canvas capture stream is created here.
GenerateVideo ==
    /\ ~isGenerating
    /\ \E r \in RunIds : runs[r].pc = "none"
    /\ previewPlaying' = PausePreviewIfPlaying(previewPlaying)
    /\ previewAnimation' = IF previewPlaying THEN FALSE ELSE previewAnimation
    /\ isGenerating' = TRUE
    /\ activeGenerationId' = activeGenerationId + 1
    /\ uiLocked' = LockUI
    /\ runs' = [runs EXCEPT ![FreeRun] =
                   [NoRun EXCEPT !.pc = "setup",
                                 !.runId = activeGenerationId + 1,
                                 !.fps = fpsValue,
                                 !.pausedPreview = previewPlaying]]
    /\ currentVideoStream' = activeGenerationId + 1
    /\ calls' = <<>>
    /\ UNCHANGED <<mediaVars, currentMediaRecorder, now, videoDuration, fpsValue, projVars, animationStartTime,
                   previewStartTime, previewCurrentTime, renderVars>>

\* generateVideo after its first await: the recorder is created and
\* started, and `await this.animateVideo(...)` runs the promise executor of
\* animateVideo up to its requestAnimationFrame(animate).
AnimateVideo(r) ==
    /\ runs[r].pc = "setup"
    /\ currentMediaRecorder' = runs[r].runId
    /\ runs' = [runs EXCEPT ![r].pc = "raf",
                            ![r].recorder = "recording",
                            ![r].totalFrames = videoDuration * runs[r].fps,
                            ![r].currentFrame = 0,
                            ![r].lastFrameTime = now]
    /\ animationStartTime' = now
    /\ calls' = <<>>
    /\ UNCHANGED <<mediaVars, currentVideoStream, now, videoDuration, fpsValue, projVars, isGenerating,
                   activeGenerationId, uiLocked, previewVars, renderVars>>

\* One requestAnimationFrame callback of animateVideo's loop.
Animate(r) ==
    /\ runs[r].pc = "raf"
    /\ IF Superseded(isGenerating, activeGenerationId, runs[r].runId)
       THEN /\ runs' = [runs EXCEPT ![r].pc = "post", ![r].exit = "aborted",
                                    ![r].abortedBy = IF isGenerating THEN "token"
                                                     ELSE "flag"]
            /\ calls' = <<>>
       ELSE LET st0 == [elapsed |-> now - runs[r].lastFrameTime,
                        currentFrame |-> runs[r].currentFrame,
                        lastFrameTime |-> runs[r].lastFrameTime,
                        framesRendered |-> 0,
                        out |-> <<>>]
                st == AnimateLoop(st0, runs[r], now, animationStartTime)
                more == st.currentFrame < runs[r].totalFrames
            IN  /\ runs' = [runs EXCEPT
                      ![r].currentFrame = st.currentFrame,
                      ![r].lastFrameTime = st.lastFrameTime,
                      ![r].emitted = runs[r].emitted \o
                                     [i \in 1..Len(st.out) |-> st.out[i].frame],
                      ![r].pc = IF more THEN "raf" ELSE "settle",
                      ![r].exit = IF more THEN "none" ELSE "completed"]
                /\ calls' = st.out
    /\ UNCHANGED <<auxVars, now, videoDuration, fpsValue, projVars, isGenerating,
                   activeGenerationId, uiLocked, animationStartTime,
                   previewVars, renderVars>>

\* animate's `setTimeout(() => resolve(), 200)` firing
Settle(r) ==
    /\ runs[r].pc = "settle"
    /\ runs' = [runs EXCEPT ![r].pc = "post"]
    /\ calls' = <<>>
    /\ UNCHANGED <<auxVars, now, videoDuration, fpsValue, projVars, isGenerating,
                   activeGenerationId, uiLocked, animationStartTime,
                   previewVars, renderVars>>

\* generateVideo after the loop: the 500 ms wait has elapsed, the run's own
\* recorder is stopped and the finally block runs.
FinallyBlock(rs, r, generating, activeId, recorder, stream) ==
    [runs |-> StopTracks(StopRecorder([rs EXCEPT ![r].pc = "done"],
                                      rs[r].runId), stream),
     isGenerating |-> FALSE,
     activeGenerationId |-> activeId + 1,
     currentMediaRecorder |-> 0,
     currentVideoStream |-> 0]

Finally(r) ==
    LET after == FinallyBlock(runs, r, isGenerating, activeGenerationId,
                              currentMediaRecorder, currentVideoStream) IN
    /\ runs[r].pc = "post"
    /\ runs' = after.runs
    /\ isGenerating' = after.isGenerating
    /\ activeGenerationId' = after.activeGenerationId
    /\ currentMediaRecorder' = after.currentMediaRecorder
    /\ currentVideoStream' = after.currentVideoStream
    /\ uiLocked' = UnlockUI
    /\ calls' = <<>>
    /\ UNCHANGED <<mediaVars, now, videoDuration, fpsValue, projVars, animationStartTime,
                   previewVars, renderVars>>

\* The Generate button while a run is marked generating: stopGeneration.
StopGeneration ==
    /\ isGenerating
    /\ isGenerating' = FALSE
    /\ activeGenerationId' = activeGenerationId + 1
    /\ animationStartTime' = 0
    /\ uiLocked' = UnlockUI
    /\ runs' = StopTracks(StopRecorder(
                  [r \in RunIds |->
                      IF runs[r].runId = activeGenerationId
                         /\ runs[r].pc \notin {"none", "done"}
                      THEN [runs[r] EXCEPT !.stopped = TRUE]
                      ELSE runs[r]],
                  currentMediaRecorder), currentVideoStream)
    /\ currentVideoStream' = 0
    /\ calls' = <<>>
    /\ UNCHANGED <<mediaVars, currentMediaRecorder, now, videoDuration, fpsValue, projVars, previewVars,
                   renderVars>>

\* mediaRecorder.onstop of run r: the pending stop event is delivered
RecorderOnStop(r) ==
    /\ runs[r].recorder = "stopping"
    /\ runs' = StopTracks([runs EXCEPT ![r].recorder = "inactive",
                                       ![r].published = TRUE],
                          currentVideoStream)
    /\ currentVideoStream' = 0
    /\ currentMediaRecorder' = 0
    /\ calls' = <<>>
    /\ UNCHANGED <<mediaVars, now, videoDuration, fpsValue, projVars,
                   isGenerating, activeGenerationId, uiLocked,
                   animationStartTime, previewVars, renderVars>>

\* onSettingsChanged: `this.isGenerating = false`
OnSettingsChanged(generating) == FALSE

\* `change` on effectIntensity / floatIntensity / floatSpeed: these controls
\* are not touched by lockUI.
ChangeIntensity ==
    /\ isGenerating' = OnSettingsChanged(isGenerating)
    /\ calls' = <<>>
    /\ UNCHANGED <<auxVars, now, videoDuration, fpsValue, projVars, activeGenerationId,
                   uiLocked, animationStartTime, previewVars, runs, renderVars>>

Tick(d) ==
    /\ now + d <= MaxNow
    /\ now' = now + d
    /\ calls' = <<>>
    /\ UNCHANGED <<auxVars, videoDuration, fpsValue, projVars, isGenerating,
                   activeGenerationId, uiLocked, animationStartTime,
                   previewVars, runs, renderVars>>

\* ===================================================================
\* The preview loop: playPreview, pausePreview, seekPreview
\* ===================================================================

\* startPreviewAnimation.animate: `progress = Math.min(currentTime /
\* this.videoDuration, 1)` compared with 1, with the quotient's IEEE cases
\* (x/0 is +-Infinity, 0/0 is NaN and compares false both ways).
ProgressBelowOne(currentTime, d) ==
    IF d > 0 THEN currentTime < d * Second
    ELSE IF d = 0 THEN currentTime < 0
    ELSE currentTime > d * Second

ProgressAtLeastOne(currentTime, d) ==
    IF d > 0 THEN currentTime >= d * Second
    ELSE IF d = 0 THEN currentTime > 0
    ELSE currentTime <= d * Second

\* startPreviewAnimation.animate, one invocation with previewPlaying true
PreviewAnimateBody(startTime) ==
    LET currentTime == now - startTime IN
    /\ calls' = <<PreviewCall("preview", currentTime)>>
    /\ IF ProgressBelowOne(currentTime, videoDuration)
       THEN /\ previewAnimation' = TRUE
            /\ previewPlaying' = TRUE
            /\ previewCurrentTime' = currentTime
       ELSE IF ProgressAtLeastOne(currentTime, videoDuration)
       THEN /\ previewAnimation' = FALSE
            /\ previewPlaying' = FALSE
            /\ previewCurrentTime' = 0
       ELSE /\ previewAnimation' = FALSE
            /\ previewPlaying' = TRUE
            /\ previewCurrentTime' = currentTime

\* click on playPreview (disabled by lockUI)
PlayPreview ==
    /\ ~uiLocked
    /\ Len(mediaItems) > 0
    /\ ~previewPlaying
    /\ previewStartTime' = now - previewCurrentTime
    /\ PreviewAnimateBody(now - previewCurrentTime)
    /\ UNCHANGED <<auxVars, now, videoDuration, fpsValue, projVars, isGenerating,
                   activeGenerationId, uiLocked, animationStartTime, runs,
                   renderVars>>

\* a pending preview requestAnimationFrame callback firing
PreviewAnimate ==
    /\ previewAnimation
    /\ IF previewPlaying
       THEN PreviewAnimateBody(previewStartTime)
       ELSE /\ previewAnimation' = FALSE
            /\ calls' = <<>>
            /\ UNCHANGED <<previewPlaying, previewCurrentTime>>
    /\ UNCHANGED <<auxVars, now, videoDuration, fpsValue, projVars, isGenerating,
                   activeGenerationId, uiLocked, animationStartTime,
                   previewStartTime, runs, renderVars>>

\* click on pausePreview (disabled by lockUI)
PausePreview ==
    /\ ~uiLocked
    /\ previewPlaying' = FALSE
    /\ previewAnimation' = FALSE
    /\ calls' = <<>>
    /\ UNCHANGED <<auxVars, now, videoDuration, fpsValue, projVars, isGenerating,
                   activeGenerationId, uiLocked, animationStartTime,
                   previewStartTime, previewCurrentTime, runs, renderVars>>

SeekPositions == {0, 50}

\* `input` on previewSeeker (not touched by lockUI)
SeekPreview(progress) ==
    LET currentTime == (progress * videoDuration * Second) \div 100 IN
    /\ previewCurrentTime' = currentTime
    /\ previewStartTime' = now - currentTime
    /\ calls' = <<PreviewCall("seek", currentTime)>>
    /\ UNCHANGED <<auxVars, now, videoDuration, fpsValue, projVars, isGenerating,
                   activeGenerationId, uiLocked, animationStartTime,
                   previewPlaying, previewAnimation, runs, renderVars>>

\* `input` on effectIntensity / floatIntensity / floatSpeed / copyrightText
IntensityInput ==
    /\ calls' = <<PreviewCall("input", previewCurrentTime)>>
    /\ UNCHANGED <<auxVars, now, videoDuration, fpsValue, projVars, isGenerating,
                   activeGenerationId, uiLocked, animationStartTime,
                   previewVars, runs, renderVars>>

\* ------------------------------------------------------- specification
\* no cached frames, no import or load in progress, nothing rendered, the
\* intensity control at its initial value
NoProbe == [fn |-> "none"]
IntValue(n) == [kind |-> "int", n |-> n]
AuxInit ==
    /\ videoFrameCache = <<>>
    /\ nextId = 1
    /\ pendingVideos = {}
    /\ loading = <<>>
    /\ stages = <<>>
    /\ effectIntensity = IntValue(50)
    /\ probe = NoProbe
    /\ currentMediaRecorder = 0
    /\ currentVideoStream = 0
    /\ pendingOnload = FALSE
    /\ staleImports = {}

SampleProject == <<Image(0)>>

Init ==
    /\ now = 1
    /\ videoDuration \in DurationInputs
    /\ fpsValue \in FpsOptions
    /\ mediaItems = SampleProject
    /\ subtitles = <<>>
    /\ isGenerating = FALSE
    /\ activeGenerationId = 0
    /\ uiLocked = FALSE
    /\ animationStartTime = 0
    /\ previewPlaying = FALSE
    /\ previewStartTime = 0
    /\ previewCurrentTime = 0
    /\ previewAnimation = FALSE
    /\ runs = [r \in RunIds |-> NoRun]
    /\ calls = <<>>
    /\ query = -1
    /\ currentMediaItem = 0
    /\ drawn = {}
    /\ AuxInit

Next ==
    \/ GenerateVideo
    \/ \E r \in RunIds : AnimateVideo(r)
    \/ \E r \in RunIds : Animate(r)
    \/ \E r \in RunIds : Settle(r)
    \/ \E r \in RunIds : Finally(r)
    \/ StopGeneration
    \/ ChangeIntensity
    \/ Tick(1)

Spec == Init /\ [][Next]_vars

\* The scheduler together with the preview loop and the controls that stay
\* enabled during a capture; the clock advances a second and a half at a time.
NextUI ==
    \/ GenerateVideo
    \/ \E r \in RunIds : AnimateVideo(r)
    \/ \E r \in RunIds : Animate(r)
    \/ \E r \in RunIds : Settle(r)
    \/ \E r \in RunIds : Finally(r)
    \/ StopGeneration
    \/ ChangeIntensity
    \/ PlayPreview
    \/ PreviewAnimate
    \/ PausePreview
    \/ \E p \in SeekPositions : SeekPreview(p)
    \/ IntensityInput
    \/ Tick(Second + 1)

InitUI == Init /\ fpsValue = 1

SpecUI == InitUI /\ [][NextUI]_vars

\* ===================================================================
\* Properties of the capture scheduler (checked under Spec)
\* ===================================================================

\* the run slot that captured generation token id
RunOf(id) == CHOOSE r \in RunIds : runs[r].runId = id

LoopState(run) ==
    [run EXCEPT !.recorder = "none", !.tracksStopped = FALSE,
                !.published = FALSE]

\* C2: once stopGeneration has cancelled a run, the run's next callback
\* returns without rendering and without rescheduling, also when another
\* run was started in between; no capture sample is ever rendered by a loop
\* whose captured runId differs from activeGenerationId.
C2_CancelStopsLoop ==
    [][ /\ \A i \in 1..Len(calls') :
               calls'[i].src = "capture" =>
                   isGenerating' /\ calls'[i].run = activeGenerationId'
        /\ \A r \in RunIds :
               runs[r].stopped =>
                   /\ runs'[r].emitted = runs[r].emitted
                   /\ \A i \in 1..Len(calls') : calls'[i].run # runs[r].runId
                   /\ (/\ runs[r].pc = "raf"
                       /\ LoopState(runs'[r]) # LoopState(runs[r])) =>
                          runs'[r].pc = "post" ]_vars

\* a cancelled run whose callback fired while a newer run was generating:
\* only the token comparison stopped it
C2_Witness ==
    \E r \in RunIds :
        /\ runs[r].stopped
        /\ runs[r].exit = "aborted"
        /\ runs[r].abortedBy = "token"
        /\ runs[r].currentFrame < runs[r].totalFrames

\* C3: the media time and the caption time of the sample for frame k both
\* equal k / fps, so they do not depend on the clock values the callbacks saw.
C3_TimesFromIndex ==
    \A i \in 1..Len(calls) :
        calls[i].src = "capture" =>
            /\ calls[i].currentTime * runs[RunOf(calls[i].run)].fps
                   = calls[i].frame * Second
            /\ SubtitleTime(calls[i]) = calls[i].currentTime

\* C5: a run that is Running and was not stopped by stopGeneration is
\* still the generating run, and a loop only aborts after stopGeneration.
C5_OnlyStopOrComplete ==
    \A r \in RunIds :
        /\ (runs[r].pc = "raf" /\ ~runs[r].stopped) =>
               isGenerating /\ activeGenerationId = runs[r].runId
        /\ runs[r].exit = "aborted" => runs[r].stopped

\* C8: a start with videoDuration <= 0 is rejected: its loop is never
\* scheduled, renders nothing and never reports completion.
C8_InvalidStartRejected ==
    videoDuration <= 0 =>
        \A r \in RunIds :
            /\ runs[r].pc \notin {"raf", "settle"}
            /\ runs[r].exit # "completed"
            /\ runs[r].emitted = <<>>

\* ===================================================================
\* Preview against capture (checked under SpecUI)
\* ===================================================================

\* C4: previewPlaying and isGenerating are never both true; the preview
\* loop renders no frame while a run is generating and the capture loop
\* renders no sample while the preview is playing.
C4_PreviewXorCapture ==
    /\ ~(previewPlaying /\ isGenerating)
    /\ \A i \in 1..Len(calls) :
           /\ calls[i].src = "preview" => ~isGenerating
           /\ calls[i].src = "capture" => ~previewPlaying

\* a run whose generateVideo found the preview playing and paused it is
\* generating and has emitted samples
C4_Witness ==
    \E r \in RunIds :
        /\ runs[r].pausedPreview
        /\ runs[r].pc = "raf"
        /\ runs[r].emitted # <<>>
        /\ isGenerating
        /\ activeGenerationId = runs[r].runId

\* ===================================================================
\* Timeline resolution: renderPreviewFrame / renderVideoFrame
\* ===================================================================

\* `[...this.mediaItems].sort((a, b) => a.timestamp - b.timestamp)`:
\* a stable sort by timestamp
InsertByTimestamp(sorted, x) ==
    LET k == Cardinality({i \in 1..Len(sorted) : sorted[i].timestamp <= x.timestamp})
    IN  SubSeq(sorted, 1, k) \o <<x>> \o SubSeq(sorted, k + 1, Len(sorted))

RECURSIVE SortByTimestamp(_)
SortByTimestamp(items) ==
    IF items = <<>> THEN <<>>
    ELSE InsertByTimestamp(SortByTimestamp(SubSeq(items, 1, Len(items) - 1)),
                           items[Len(items)])

\* `item.timestamp + (item.duration || 2)`
ItemEndTimeNoDefault(item) == item.timestamp + item.duration
ItemEndTime(item) ==
    item.timestamp + (IF item.duration # 0 THEN item.duration
                      ELSE DefaultImageDuration)

\* renderVideoFrame, first loop: from the last item backward, the first
\* item with timestamp <= currentTime < itemEndTime (0 = none)
RECURSIVE FindContaining(_, _, _)
FindContaining(items, i, currentTime) ==
    IF i < 1 THEN 0
    ELSE IF currentTime >= items[i].timestamp /\ currentTime < ItemEndTime(items[i])
         THEN i
         ELSE FindContaining(items, i - 1, currentTime)

\* renderVideoFrame, second loop: from the last item backward, the first
\* item with timestamp <= currentTime (0 = none)
FindLastClip(items, i, currentTime) == i
RECURSIVE FindLastStarted(_, _, _)
FindLastStarted(items, i, currentTime) ==
    IF i < 1 THEN 0
    ELSE IF currentTime >= items[i].timestamp
         THEN i
         ELSE FindLastStarted(items, i - 1, currentTime)

\* renderVideoFrame: currentMediaItem as an index of sortedMediaItems
ResolveCurrent(items, currentTime) ==
    LET found == FindContaining(items, Len(items), currentTime) IN
    IF found = 0 /\ Len(items) > 0
    THEN FindLastStarted(items, Len(items), currentTime)
    ELSE found

\* renderPreviewFrame(t): sort, then renderVideoFrame's clip resolution
RenderPreviewFrame(t) ==
    /\ query' = t
    /\ currentMediaItem' = ResolveCurrent(SortByTimestamp(mediaItems), t)
    /\ UNCHANGED <<auxVars, now, videoDuration, fpsValue, projVars, isGenerating,
                   activeGenerationId, uiLocked, animationStartTime,
                   previewVars, runs, calls, drawn>>

\* the timeline (start, duration) = (0,5), (5,3), (10,2)
ExampleClips == <<Video(0, 5 * Second), Video(5 * Second, 3 * Second),
                  Video(10 * Second, 2 * Second)>>

ClipChoices ==
    {Image(ts) : ts \in 0..MaxStart}
        \cup {Video(ts, d) : ts \in 0..MaxStart, d \in {1, 2 * Second + 1}}

QueryTimes == 0..(12 * Second + 1) \cup {100 * Second}

InitTimeline ==
    /\ \/ mediaItems = ExampleClips
       \/ \E n \in 0..MaxClips : mediaItems \in [1..n -> ClipChoices]
    /\ now = 1
    /\ videoDuration = 12
    /\ fpsValue = 1
    /\ subtitles = <<>>
    /\ isGenerating = FALSE
    /\ activeGenerationId = 0
    /\ uiLocked = FALSE
    /\ animationStartTime = 0
    /\ previewPlaying = FALSE
    /\ previewStartTime = 0
    /\ previewCurrentTime = 0
    /\ previewAnimation = FALSE
    /\ runs = [r \in RunIds |-> NoRun]
    /\ calls = <<>>
    /\ query = -1
    /\ currentMediaItem = 0
    /\ drawn = {}
    /\ AuxInit

NextTimeline == \E t \in QueryTimes : RenderPreviewFrame(t)

SpecTimeline == InitTimeline /\ [][NextTimeline]_vars

\* the clip index in the claims' numbering (first clip 0; -1 = no clip)
ResolvedClip == currentMediaItem - 1

\* C6 as stated: for the timeline (0,5), (5,3), (10,2) the current clip is
\* clip 0 on [0,5), clip 1 on [5,8), clip 2 on [10,12), and clip 2 both at
\* t = 8.5 and at t = 100.
C6_ExampleAsStated ==
    (mediaItems = ExampleClips /\ query >= 0) =>
        /\ (query < 5 * Second) => ResolvedClip = 0
        /\ (query >= 5 * Second /\ query < 8 * Second) => ResolvedClip = 1
        /\ (query >= 10 * Second /\ query < 12 * Second) => ResolvedClip = 2
        /\ (2 * query = 17 * Second) => ResolvedClip = 2
        /\ (query = 100 * Second) => ResolvedClip = 2

\* C6 amended: as stated, except that at t = 8.5, in the gap, the current
\* clip is clip 1, the last clip that has started.
C6_Example ==
    (mediaItems = ExampleClips /\ query >= 0) =>
        /\ (query < 5 * Second) => ResolvedClip = 0
        /\ (query >= 5 * Second /\ query < 8 * Second) => ResolvedClip = 1
        /\ (query >= 10 * Second /\ query < 12 * Second) => ResolvedClip = 2
        /\ (2 * query = 17 * Second) => ResolvedClip = 1
        /\ (query = 100 * Second) => ResolvedClip = 2

\* the example timeline rendered at t = 8.5
C6_Witness ==
    /\ mediaItems = ExampleClips
    /\ 2 * query = 17 * Second
    /\ ResolvedClip = 1

\* the duration the reference gives a clip: 2 seconds for an Image
RefDuration(item) ==
    IF item.type = "image" THEN 2 * Second ELSE item.duration

RefContains(item, t) ==
    item.timestamp <= t /\ t < item.timestamp + RefDuration(item)

MaxOf(S) == CHOOSE x \in S : \A y \in S : y <= x

\* the reference resolution of C7 (0 = no clip)
RefResolve(items, t) ==
    LET containing == {i \in 1..Len(items) : RefContains(items[i], t)}
        started == {i \in 1..Len(items) : items[i].timestamp <= t}
    IN  IF containing # {} THEN MaxOf(containing)
        ELSE IF started # {} THEN MaxOf(started)
        ELSE 0

\* C7: for every clip list sorted by start time and every t, the resolved
\* clip is the highest-index clip whose window [start, start + duration)
\* contains t (an Image counting 2 seconds); failing that the highest-index
\* clip with start <= t; failing that none.
C7_Reference ==
    query >= 0 =>
        currentMediaItem = RefResolve(SortByTimestamp(mediaItems), query)

\* two overlapping clips contain t and the later one was resolved, in a
\* list that also holds an Image
C7_Witness ==
    /\ query >= 0
    /\ LET items == SortByTimestamp(mediaItems) IN
       /\ \E i, j \in 1..Len(items) :
              /\ i < j
              /\ RefContains(items[i], query)
              /\ RefContains(items[j], query)
              /\ items[i].timestamp < items[j].timestamp
              /\ items[j].type = "image"
              /\ currentMediaItem = j

\* ===================================================================
\* Captions: addSubtitle, the list's edit handlers, drawSubtitles
\* ===================================================================

\* The text of a time field: "m:s" with integer parts, or a text without
\* a colon.
TimeText(m, s) == [colon |-> TRUE, m |-> m, s |-> s]
NoColonText == [colon |-> FALSE, m |-> 0, s |-> 0]

\* parseTime, for a string argument
ParseTime(text) ==
    IF ~text.colon THEN 0
    ELSE Max(0, text.m) * 60 + Min(Max(text.s, 0), 59)

TimeInputs ==
    {TimeText(0, s) : s \in 0..MaxSubTime}
        \cup {TimeText(1, 0), TimeText(0, 75), TimeText(-1, 2), NoColonText}

\* The value of a number field: an integer, or empty
NumberValue(n) == [empty |-> FALSE, n |-> n]
EmptyValue == [empty |-> TRUE, n |-> 0]

NumberInputs == {NumberValue(n) : n \in -1..MaxSubTime} \cup {EmptyValue}

\* `Math.max(1, this.videoDuration - start)`
ClampDuration(start, duration) ==
    IF start + duration > videoDuration
    THEN Max(1, videoDuration - start)
    ELSE duration

\* addSubtitle with a non-empty text
AddSubtitle(startText, durValue) ==
    LET duration == Max(1, IF durValue.empty THEN 5 ELSE durValue.n)
        start == ParseTime(startText)
    IN  /\ Len(subtitles) < MaxSubs
        /\ IF start > videoDuration
           THEN UNCHANGED subtitles
           ELSE subtitles' = Append(subtitles,
                    [start |-> start, duration |-> ClampDuration(start, duration)])
        /\ query' = -1
        /\ drawn' = {}
        /\ UNCHANGED <<auxVars, now, videoDuration, fpsValue, mediaItems, isGenerating,
                       activeGenerationId, uiLocked, animationStartTime,
                       previewVars, runs, calls, currentMediaItem>>

\* renderSubtitleList: `change` on a row's start field
EditSubtitleStart(i, startText) ==
    LET newStart == ParseTime(startText) IN
    /\ i \in 1..Len(subtitles)
    /\ IF newStart <= videoDuration
       THEN subtitles' = [subtitles EXCEPT
                ![i] = [start |-> newStart,
                        duration |-> ClampDuration(newStart, subtitles[i].duration)]]
       ELSE UNCHANGED subtitles
    /\ query' = -1
    /\ drawn' = {}
    /\ UNCHANGED <<auxVars, now, videoDuration, fpsValue, mediaItems, isGenerating,
                   activeGenerationId, uiLocked, animationStartTime,
                   previewVars, runs, calls, currentMediaItem>>

\* renderSubtitleList: `change` on a row's duration field
EditSubtitleDuration(i, durValue) ==
    LET d == IF durValue.empty \/ durValue.n < 1 THEN 1 ELSE durValue.n IN
    /\ i \in 1..Len(subtitles)
    /\ subtitles' = [subtitles EXCEPT
            ![i].duration = ClampDuration(subtitles[i].start, d)]
    /\ query' = -1
    /\ drawn' = {}
    /\ UNCHANGED <<auxVars, now, videoDuration, fpsValue, mediaItems, isGenerating,
                   activeGenerationId, uiLocked, animationStartTime,
                   previewVars, runs, calls, currentMediaItem>>

\* removeSubtitle
RemoveSubtitle(i) ==
    /\ i \in 1..Len(subtitles)
    /\ subtitles' = SubSeq(subtitles, 1, i - 1) \o SubSeq(subtitles, i + 1, Len(subtitles))
    /\ query' = -1
    /\ drawn' = {}
    /\ UNCHANGED <<auxVars, now, videoDuration, fpsValue, mediaItems, isGenerating,
                   activeGenerationId, uiLocked, animationStartTime,
                   previewVars, runs, calls, currentMediaItem>>

\* drawSubtitles: `currentTime >= s.start && currentTime < s.start + s.duration`
ActiveInclusiveEnd(s, currentTime) ==
    /\ currentTime >= s.start * Second
    /\ currentTime <= (s.start + s.duration) * Second
Active(s, currentTime) ==
    /\ currentTime >= s.start * Second
    /\ currentTime < (s.start + s.duration) * Second

\* drawSubtitles: the caption handed to fillText, `active[0]` of the active
\* captions stably sorted by start (as a set of indices of this.subtitles)
DrawnCaptionsUnsorted(subs, currentTime) ==
    LET active == {i \in 1..Len(subs) : Active(subs[i], currentTime)}
    IN  {i \in active : \A j \in active : i <= j}
DrawnCaptions(subs, currentTime) ==
    LET active == {i \in 1..Len(subs) : Active(subs[i], currentTime)}
    IN  {i \in active :
            \A j \in active :
                \/ subs[i].start < subs[j].start
                \/ (subs[i].start = subs[j].start /\ i <= j)}

\* renderVideoFrame's caption stage at subtitle time t
DrawSubtitles(t) ==
    /\ query' = t
    /\ drawn' = DrawnCaptions(subtitles, t)
    /\ UNCHANGED <<auxVars, now, videoDuration, fpsValue, projVars, isGenerating,
                   activeGenerationId, uiLocked, animationStartTime,
                   previewVars, runs, calls, currentMediaItem>>

SubQueryTimes == 0..((MaxSubTime + 1) * Second)

InitSubs ==
    /\ videoDuration \in (MaxSubTime - 2)..(MaxSubTime - 1)
    /\ subtitles = <<>>
    /\ mediaItems = SampleProject
    /\ now = 1
    /\ fpsValue = 1
    /\ isGenerating = FALSE
    /\ activeGenerationId = 0
    /\ uiLocked = FALSE
    /\ animationStartTime = 0
    /\ previewPlaying = FALSE
    /\ previewStartTime = 0
    /\ previewCurrentTime = 0
    /\ previewAnimation = FALSE
    /\ runs = [r \in RunIds |-> NoRun]
    /\ calls = <<>>
    /\ query = -1
    /\ currentMediaItem = 0
    /\ drawn = {}
    /\ AuxInit

NextSubs ==
    \/ \E st \in TimeInputs, dv \in NumberInputs : AddSubtitle(st, dv)
    \/ \E i \in 1..MaxSubs, st \in TimeInputs : EditSubtitleStart(i, st)
    \/ \E i \in 1..MaxSubs, dv \in NumberInputs : EditSubtitleDuration(i, dv)
    \/ \E i \in 1..MaxSubs : RemoveSubtitle(i)
    \/ \E t \in SubQueryTimes : DrawSubtitles(t)

SpecSubs == InitSubs /\ [][NextSubs]_vars

\* the window of a caption, in clock units
InWindow(s, t) == s.start * Second <= t /\ t < (s.start + s.duration) * Second

\* C9: drawSubtitles draws a caption at time t only if t lies in that
\* caption's half-open window [start, start + duration), and it draws one
\* exactly when some caption's window contains t; a lone caption is drawn
\* exactly for the t of its window (drawn at t = start, not drawn at
\* t = start + duration).
C9_HalfOpenWindow ==
    query >= 0 =>
        /\ \A i \in drawn : i \in 1..Len(subtitles) /\ InWindow(subtitles[i], query)
        /\ (drawn # {}) <=> (\E i \in 1..Len(subtitles) : InWindow(subtitles[i], query))
        /\ Len(subtitles) = 1 => ((1 \in drawn) <=> InWindow(subtitles[1], query))

\* the caption {start 2, duration 3} alone in the list, drawn at t = 2
C9_Witness ==
    /\ subtitles = <<[start |-> 2, duration |-> 3]>>
    /\ query = 2 * Second
    /\ drawn = {1}

\* C10: every caption has duration >= 1 and start + duration <= videoDuration
C10_CaptionsFit ==
    \A i \in 1..Len(subtitles) :
        /\ subtitles[i].duration >= 1
        /\ subtitles[i].start + subtitles[i].duration <= videoDuration

\* C13: one drawSubtitles call draws at most one caption, and when several
\* captions are active at time t the one drawn has the smallest start among
\* the active ones; no other active caption is drawn.
C13_EarliestActiveOnly ==
    query >= 0 =>
        /\ Cardinality(drawn) <= 1
        /\ \A i \in drawn :
               \A j \in 1..Len(subtitles) :
                   InWindow(subtitles[j], query) =>
                       subtitles[i].start <= subtitles[j].start

\* two captions overlap at t, the later-listed one starts earlier and is
\* the one drawn
C13_Witness ==
    /\ query >= 0
    /\ Len(subtitles) = 2
    /\ InWindow(subtitles[1], query)
    /\ InWindow(subtitles[2], query)
    /\ subtitles[2].start < subtitles[1].start
    /\ drawn = {2}

\* ===================================================================
\* The intensity model: getEffectIntensity, getIntensityScales
\* ===================================================================

MaxIntensityInput == 1000

\* The text of the intensity control: an integer numeral, the empty string,
\* or a text that does not start with a number.
EmptyText == [kind |-> "empty", n |-> 0]
OtherText == [kind |-> "text", n |-> 0]

IntensityInputs ==
    {IntValue(n) : n \in -MaxIntensityInput..MaxIntensityInput}
        \cup {EmptyText, OtherText}

\* `parseInt(value || '50', 10)`; NaN is [nan |-> TRUE]
ParseIntensity(value) ==
    IF value.kind = "empty" THEN [nan |-> FALSE, n |-> 50]
    ELSE IF value.kind = "text" THEN [nan |-> TRUE, n |-> 0]
    ELSE [nan |-> FALSE, n |-> value.n]

\* getEffectIntensity
GetEffectIntensityNoClamp(value) ==
    LET val == ParseIntensity(value) IN
    IF val.nan THEN 50 ELSE val.n
GetEffectIntensityDefault(value) ==
    LET val == ParseIntensity(value) IN
    IF val.nan \/ val.n < 0 \/ val.n > 100 THEN 50 ELSE val.n
GetEffectIntensity(value) ==
    LET val == ParseIntensity(value) IN
    IF val.nan THEN 50 ELSE Min(100, Max(0, val.n))

\* getIntensityScales, in thousandths: count = 0.2 + s / 50,
\* size = 0.7 + (s / 100) * 0.8, alpha = 0.5 + (s / 100) * 0.5
IntensityScales(s) ==
    [count |-> 200 + 20 * s, size |-> 700 + 8 * s, alpha |-> 500 + 5 * s]

NoScales == [arg |-> EmptyText, level |-> -1, count |-> 0, size |-> 0, alpha |-> 0]

\* one call of getIntensityScales with the control holding `value`; the
\* result of the call before it is kept for comparison
GetIntensityScales(value) ==
    LET s == GetEffectIntensity(value)
        I == IntensityScales(s)
        cur == [arg |-> value, level |-> s, count |-> I.count,
                size |-> I.size, alpha |-> I.alpha]
    IN  /\ effectIntensity' = value
        /\ probe' = [fn |-> "scales", cur |-> cur,
                     prev |-> IF probe.fn = "scales" THEN probe.cur ELSE NoScales]
        /\ UNCHANGED <<recVars, pendingOnload, staleImports, now, videoDuration, fpsValue, projVars, isGenerating,
                       activeGenerationId, uiLocked, animationStartTime,
                       previewVars, runs, calls, renderVars, videoFrameCache,
                       nextId, pendingVideos, loading, stages>>

InitScales ==
    /\ now = 1
    /\ videoDuration = MaxDuration
    /\ fpsValue = 1
    /\ mediaItems = <<>>
    /\ subtitles = <<>>
    /\ isGenerating = FALSE
    /\ activeGenerationId = 0
    /\ uiLocked = FALSE
    /\ animationStartTime = 0
    /\ previewPlaying = FALSE
    /\ previewStartTime = 0
    /\ previewCurrentTime = 0
    /\ previewAnimation = FALSE
    /\ runs = [r \in RunIds |-> NoRun]
    /\ calls = <<>>
    /\ query = -1
    /\ currentMediaItem = 0
    /\ drawn = {}
    /\ videoFrameCache = <<>>
    /\ nextId = 1
    /\ pendingVideos = {}
    /\ loading = <<>>
    /\ stages = <<>>
    /\ effectIntensity \in IntensityInputs
    /\ probe = NoProbe
    /\ currentMediaRecorder = 0
    /\ currentVideoStream = 0
    /\ pendingOnload = FALSE
    /\ staleImports = {}

\* the values the control takes next: one step up or down from its value,
\* or one of the levels 0, 50, 100, the empty string, a non-numeric text
StepInputs(value) ==
    IF value.kind = "int"
    THEN {IntValue(value.n - 1), IntValue(value.n + 1)} \cap IntensityInputs
    ELSE {}
LevelInputs == {IntValue(0), IntValue(50), IntValue(100), EmptyText, OtherText}

NextScales ==
    \E value \in StepInputs(effectIntensity) \cup LevelInputs :
        GetIntensityScales(value)

SpecScales == InitScales /\ [][NextScales]_vars

C19_ScalesInRangeAndMonotone ==
    (probe.fn = "scales" /\ probe.cur.arg.kind = "int") =>
        /\ probe.cur.count >= 200 /\ probe.cur.count <= 2200
        /\ probe.cur.size >= 700 /\ probe.cur.size <= 1500
        /\ probe.cur.alpha >= 500 /\ probe.cur.alpha <= 1000
        /\ (probe.prev.arg.kind = "int" /\ probe.prev.arg.n <= probe.cur.arg.n) =>
               /\ probe.prev.count <= probe.cur.count
               /\ probe.prev.size <= probe.cur.size
               /\ probe.prev.alpha <= probe.cur.alpha
        /\ (probe.prev.arg = IntValue(0) /\ probe.cur.arg = IntValue(50)) =>
               probe.prev.count < probe.cur.count
        /\ (probe.prev.arg = IntValue(50) /\ probe.cur.arg = IntValue(100)) =>
               probe.prev.count < probe.cur.count

\* the scales were read at 100 and then at 101, past the range
C19_Witness ==
    /\ probe.fn = "scales"
    /\ probe.prev.arg = IntValue(100)
    /\ probe.cur.arg = IntValue(101)
    /\ probe.prev.count = 2200
    /\ probe.cur.count = 2200

\* ===================================================================
\* The noise helpers: noise01, noise11
\* ===================================================================

\* A Number is modelled as a fixed-point value in thousandths whose finite
\* range ends at MaxFinite, as the finite range of a binary64 value ends at
\* Number.MAX_VALUE: [k |-> "fin", v |-> thousandths], [k |-> "inf",
\* v |-> sign] or [k |-> "nan", v |-> 0].
MaxFinite == 30000

Fin(v) == [k |-> "fin", v |-> v]
Inf(sign) == [k |-> "inf", v |-> sign]
NaN == [k |-> "nan", v |-> 0]

Sign(v) == IF v < 0 THEN -1 ELSE 1

\* a finite result, or the infinity it overflows to
Rounded(v) == IF Abs(v) > MaxFinite THEN Inf(Sign(v)) ELSE Fin(v)

\* integer division that truncates toward zero
Quot(a, b) == Sign(a) * (Abs(a) \div b)

\* a * b
FMul(a, b) ==
    IF a.k = "nan" \/ b.k = "nan" THEN NaN
    ELSE IF a.k = "fin" /\ b.k = "fin" THEN Rounded(Quot(a.v * b.v, 1000))
    ELSE IF (a.k = "fin" /\ a.v = 0) \/ (b.k = "fin" /\ b.v = 0) THEN NaN
    ELSE Inf(Sign(a.v) * Sign(b.v))

\* a + b
FAdd(a, b) ==
    IF a.k = "nan" \/ b.k = "nan" THEN NaN
    ELSE IF a.k = "fin" /\ b.k = "fin" THEN Rounded(a.v + b.v)
    ELSE IF a.k = "inf" /\ b.k = "inf"
         THEN IF a.v = b.v THEN a ELSE NaN
    ELSE IF a.k = "inf" THEN a ELSE b

\* Math.sin: NaN for a NaN or infinite argument; for a finite argument a
\* value of [-1, 1], here the triangular wave of period 6.283 through the
\* zeros and extrema of the sine
Wave(x) ==
    LET r == x % 6283 IN
    IF r <= 1571 THEN Quot(r * 1000, 1571)
    ELSE IF r <= 4712 THEN Quot((3141 - r) * 1000, 1571)
    ELSE Max(-1000, Quot((r - 6283) * 1000, 1571))
MathSin(x) == IF x.k = "fin" THEN Fin(Wave(x.v)) ELSE NaN
\* Math.cos
MathCos(x) == IF x.k = "fin" THEN Fin(Wave(x.v + 1571)) ELSE NaN

\* noise01(t, seed, freq)
Noise01(t, seed, freq) ==
    LET x == FAdd(FMul(t, freq), FMul(seed, Fin(123)))
        v == MathSin(FAdd(FAdd(FMul(x, Fin(2300)),
                               FMul(MathCos(FMul(x, Fin(700))), Fin(1900))),
                          FMul(seed, Fin(1170))))
    IN  FAdd(Fin(500), FMul(Fin(500), v))

\* noise11(t, seed, freq)
Noise11(t, seed, freq) ==
    FAdd(FMul(Noise01(t, seed, freq), Fin(2000)), Fin(-1000))

\* finite arguments: times, seeds and frequencies, small and large
NoiseTimes == {Fin(v) : v \in {0, 40, 1000, 2500, 12345, -8000, MaxFinite}}
NoiseSeeds == {Fin(v) : v \in {0, 1000, 7000, -3000}}
NoiseFreqs == {Fin(v) : v \in {1000, 500, 2000, 300}}

\* one evaluation of noise01 and noise11 on the same arguments
Noise(t, seed, freq) ==
    /\ probe' = [fn |-> "noise", t |-> t, seed |-> seed, freq |-> freq,
                 noise01 |-> Noise01(t, seed, freq),
                 noise11 |-> Noise11(t, seed, freq)]
    /\ UNCHANGED <<recVars, pendingOnload, staleImports, now, videoDuration, fpsValue, projVars, isGenerating,
                   activeGenerationId, uiLocked, animationStartTime,
                   previewVars, runs, calls, renderVars, videoFrameCache,
                   nextId, pendingVideos, loading, stages, effectIntensity>>

InitNoise == InitScales /\ effectIntensity = IntValue(50)

NextNoise ==
    \E t \in NoiseTimes, seed \in NoiseSeeds, freq \in NoiseFreqs :
        Noise(t, seed, freq)

SpecNoise == InitNoise /\ [][NextNoise]_vars

\* C20: for finite (t, seed, freq), noise01 returns a value in [0, 1] and
\* noise11 a value in [-1, 1].
C20_NoiseBounds ==
    probe.fn = "noise" =>
        /\ probe.noise01.k = "fin"
        /\ probe.noise01.v >= 0 /\ probe.noise01.v <= 1000
        /\ probe.noise11.k = "fin"
        /\ probe.noise11.v >= -1000 /\ probe.noise11.v <= 1000

\* ===================================================================
\* The media library: imports, timestamp edits, removal, reset, load,
\* duration changes
\* ===================================================================

MaxIds == 4            \* clip ids handed out in one behaviour

\* A library clip: the fields of a mediaItems entry that the renderer and
\* the library operations read.  `restored` is isRestored, `preview` tells
\* whether previewFrame is set.
ImageItem(id, ts) ==
    [id |-> id, type |-> "image", timestamp |-> ts, duration |-> 0,
     restored |-> FALSE, preview |-> FALSE]
VideoItem(id, ts, d, restored, preview) ==
    [id |-> id, type |-> "video", timestamp |-> ts, duration |-> d,
     restored |-> restored, preview |-> preview]

\* A cached frame list: frames[i] tells whether the image of the frame with
\* time (i - 1) * 0.1 s is loaded (`image.complete && naturalWidth > 0`).
FramesPerUnit == 10 \div Second

\* extractVideoFrames: `Math.ceil(duration / 0.1)` frames, each image loaded
\* (onload) or not (onerror)
AllLoaded(n) == [i \in 1..n |-> TRUE]
NoneLoaded(n) == [i \in 1..n |-> FALSE]
ExtractedFrames(d) ==
    {AllLoaded(d * FramesPerUnit), NoneLoaded(d * FramesPerUnit)}

\* Map.prototype.set / delete / clear on videoFrameCache.  A key is the
\* number `id` or its string form; a Map does not identify the two.
NumberKey(id) == [form |-> "number", id |-> id]
StringKey(id) == [form |-> "string", id |-> id]
MapSet(cache, id, frames) ==
    [k \in DOMAIN cache \cup {id} |-> IF k = id THEN frames ELSE cache[k]]
MapDelete(cache, key) ==
    IF key.form = "number"
    THEN [k \in DOMAIN cache \ {key.id} |-> cache[k]]
    ELSE cache
MapClear == <<>>

\* getNextAvailableTimestamp
GetNextAvailableTimestamp ==
    IF Len(mediaItems) = 0 THEN 0
    ELSE LET ends == {ItemEndTime(mediaItems[i]) : i \in 1..Len(mediaItems)}
             maxEndTime == MaxOf(ends \cup {0})
         IN  Min(maxEndTime, videoDuration * Second)

\* the steps below leave the scheduler, the preview and the helpers alone
importFrame == <<now, fpsValue, activeGenerationId, uiLocked,
                 animationStartTime, previewPlaying, previewStartTime,
                 previewAnimation, runs, calls, recVars>>
renderFrame == <<importFrame, staleImports>>
libFrame == <<renderFrame, pendingOnload>>

\* a step that renders nothing
NoRender ==
    /\ query' = -1
    /\ currentMediaItem' = 0
    /\ drawn' = {}
    /\ stages' = <<>>

\* processImageFile, from img.onload on
ProcessImageFile ==
    /\ Len(mediaItems) < MaxClips
    /\ nextId <= MaxIds
    /\ mediaItems' = Append(mediaItems,
                            ImageItem(nextId, GetNextAvailableTimestamp))
    /\ nextId' = nextId + 1
    /\ probe' = NoProbe
    /\ NoRender
    /\ UNCHANGED <<libFrame, effectIntensity, videoDuration, subtitles, isGenerating,
                   previewCurrentTime, videoFrameCache, pendingVideos, loading>>

\* processVideoFile, `loadedmetadata` up to the first await of
\* extractVideoFrames: id and timestamp are taken here
VideoLengths == {1, 2}
VideoLoadedMetadata(d) ==
    /\ pendingVideos = {}
    /\ nextId <= MaxIds
    /\ pendingVideos' = pendingVideos \cup
           {VideoItem(nextId, GetNextAvailableTimestamp, d, FALSE, FALSE)}
    /\ nextId' = nextId + 1
    /\ probe' = NoProbe
    /\ NoRender
    /\ UNCHANGED <<libFrame, effectIntensity, videoDuration, projVars, isGenerating,
                   previewCurrentTime, videoFrameCache, loading>>

\* processVideoFile, from the last frame of extractVideoFrames on:
\* videoFrameCache.set, previewFrame, mediaItems.push
PushedOnly(cache, videoData, frames) == cache
CacheFrames(cache, videoData, frames) == MapSet(cache, videoData.id, frames)
VideoFramesExtracted(videoData, frames) ==
    /\ videoData \in pendingVideos
    /\ Len(mediaItems) < MaxClips
    /\ pendingVideos' = pendingVideos \ {videoData}
    /\ videoFrameCache' = CacheFrames(videoFrameCache, videoData, frames)
    /\ mediaItems' = Append(mediaItems,
                            [videoData EXCEPT !.preview = Len(frames) > 0])
    /\ staleImports' = staleImports \ {videoData.id}
    /\ probe' = NoProbe
    /\ NoRender
    /\ UNCHANGED <<importFrame, pendingOnload, effectIntensity, videoDuration, subtitles, isGenerating,
                   previewCurrentTime, nextId, loading>>

\* renderMediaList: `change` on a clip's timestamp field
ClipTimeInputs == {TimeText(0, s) : s \in 0..(MaxDuration + 1)} \cup {NoColonText}
EditTimestamp(i, text) ==
    LET newTime == ParseTime(text) IN
    /\ i \in 1..Len(mediaItems)
    /\ IF newTime <= videoDuration
       THEN mediaItems' = [mediaItems EXCEPT ![i].timestamp = newTime * Second]
       ELSE UNCHANGED mediaItems
    /\ NoRender
    /\ UNCHANGED <<libFrame, probe, effectIntensity, videoDuration, subtitles, isGenerating,
                   previewCurrentTime, videoFrameCache, nextId, pendingVideos,
                   loading>>

\* removeMediaItem(itemId), itemId a number or the string of the button's
\* data-id attribute
FindIndex(items, itemId) ==
    LET hits == {i \in 1..Len(items) : items[i].id = itemId.id} IN
    IF hits = {} THEN 0 ELSE CHOOSE i \in hits : \A j \in hits : i <= j
DeletedKeyAsPassed(item, itemId) == itemId
DeletedKey(item, itemId) == NumberKey(item.id)
RemoveMediaItem(itemId) ==
    LET index == FindIndex(mediaItems, itemId) IN
    /\ index # 0
    /\ videoFrameCache' =
           IF mediaItems[index].type = "video"
           THEN MapDelete(videoFrameCache, DeletedKey(mediaItems[index], itemId))
           ELSE videoFrameCache
    /\ mediaItems' = SubSeq(mediaItems, 1, index - 1)
                        \o SubSeq(mediaItems, index + 1, Len(mediaItems))
    /\ probe' = [fn |-> "removeMediaItem", itemId |-> itemId,
                 item |-> mediaItems[index]]
    /\ NoRender
    /\ UNCHANGED <<libFrame, effectIntensity, videoDuration, subtitles, isGenerating,
                   previewCurrentTime, nextId, pendingVideos, loading>>

\* the imports between processVideoFile's `loadedmetadata` and the end of
\* its frame extraction: resetProject leaves them running
InFlight == {videoData.id : videoData \in pendingVideos}

\* resetProject
ResetProject ==
    /\ mediaItems' = <<>>
    /\ subtitles' = <<>>
    /\ videoFrameCache' = MapClear
    /\ effectIntensity' = IntValue(50)
    /\ staleImports' = InFlight
    /\ probe' = NoProbe
    /\ NoRender
    /\ UNCHANGED <<importFrame, pendingOnload, videoDuration, isGenerating,
                   previewCurrentTime, nextId, pendingVideos, loading>>

\* ===================================================================
\* The frame compositor: renderVideoFrame and the routines it calls
\* ===================================================================

\* One canvas operation: the stage of renderVideoFrame that issued it and
\* what it did.
Op(stage, what) == [stage |-> stage, what |-> what]

\* renderVideoFrame, third loop: scanning from the last item backward over
\* the items that start before the current video, the first image; with no
\* image, the first video that has cached frames (0 = none)
HasFrames(cache, item) ==
    item.id \in DOMAIN cache /\ Len(cache[item.id]) > 0
\* `item.timestamp < currentMediaItem.timestamp`
StartsBeforeOrAt(item, current) == item.timestamp <= current.timestamp
StartsBefore(item, current) == item.timestamp < current.timestamp

RECURSIVE BackgroundScan(_, _, _, _, _)
BackgroundScan(items, i, cur, cache, lastVideoWithFrames) ==
    IF i < 1 THEN lastVideoWithFrames
    ELSE IF StartsBefore(items[i], items[cur])
         THEN IF items[i].type = "image" THEN i
              ELSE IF lastVideoWithFrames = 0 /\ HasFrames(cache, items[i])
                   THEN BackgroundScan(items, i - 1, cur, cache, i)
                   ELSE BackgroundScan(items, i - 1, cur, cache, lastVideoWithFrames)
         ELSE BackgroundScan(items, i - 1, cur, cache, lastVideoWithFrames)
FindBackground(items, cur, cache) ==
    IF cur # 0 /\ items[cur].type = "video"
    THEN BackgroundScan(items, Len(items), cur, cache, 0)
    ELSE 0

\* drawVideoFrameWithBackground, the backdrop part
DrawBackdrop(items, bg, cache) ==
    IF bg = 0 THEN <<>>
    ELSE IF items[bg].type = "image" THEN <<Op("clip", "backdropImage")>>
    ELSE IF HasFrames(cache, items[bg])
            /\ cache[items[bg].id][Len(cache[items[bg].id])]
         THEN <<Op("clip", "backdropVideo")>>
         ELSE <<>>

\* drawVideoFrame: the index of the cached frame closest to clampedTime
\* (the first of equally close ones); times in tenths of a second
ClosestFrame(frames, clampedTime) ==
    LET diff(i) == Abs(clampedTime * FramesPerUnit - (i - 1))
    IN  CHOOSE i \in 1..Len(frames) :
            /\ \A j \in 1..Len(frames) : diff(i) <= diff(j)
            /\ \A j \in 1..(i - 1) : diff(j) > diff(i)

\* drawVideoFrame and drawFrameFromDataUrlWithBackground
DrawVideoFrame(videoData, cache, currentTime) ==
    LET clampedTime == Max(0, Min(currentTime - videoData.timestamp,
                                  videoData.duration))
    IN  IF ~HasFrames(cache, videoData)
        THEN IF videoData.restored /\ videoData.preview
             THEN <<Op("clip", "previewFrameOnLoad")>>
             ELSE <<Op("clip", "fillBlack")>>
        ELSE IF cache[videoData.id][ClosestFrame(cache[videoData.id], clampedTime)]
             THEN <<Op("clip", "videoFrame")>>
             ELSE <<>>

\* the effect, caption and watermark stages: drawEffect draws unless the
\* effect is 'none', drawSubtitles when a caption is active,
\* drawCopyrightOverlay when the text is not blank
OverlaysCaptionFirst(effect, captions, watermark) ==
    (IF captions # {} THEN <<Op("caption", "fillText")>> ELSE <<>>)
        \o (IF effect # "none" THEN <<Op("effect", effect)>> ELSE <<>>)
        \o (IF watermark THEN <<Op("watermark", "fillText")>> ELSE <<>>)
Overlays(effect, captions, watermark) ==
    (IF effect # "none" THEN <<Op("effect", effect)>> ELSE <<>>)
        \o (IF captions # {} THEN <<Op("caption", "fillText")>> ELSE <<>>)
        \o (IF watermark THEN <<Op("watermark", "fillText")>> ELSE <<>>)

\* renderVideoFrame(sortedMediaItems, currentTime, w, h, smoothTime): the
\* canvas operations of one call
RenderStages(items, cache, subs, currentTime, subtitleTime, effect, watermark) ==
    LET cur == ResolveCurrent(items, currentTime)
        bg == FindBackground(items, cur, cache)
        clip == IF cur = 0 THEN <<>>
                ELSE IF items[cur].type = "image"
                     THEN <<Op("clip", "image")>>
                     ELSE DrawBackdrop(items, bg, cache)
                            \o DrawVideoFrame(items[cur], cache, currentTime)
    IN  <<Op("background", "fillBlack")>> \o clip
            \o Overlays(effect, DrawnCaptions(subs, subtitleTime), watermark)

\* The 2D context as the clip stage uses it: globalAlpha in thousandths, the
\* stack of save(), and the drawImage calls with the alpha in force at each.
OpaqueAlpha == 1000        \* `this.ctx.globalAlpha = 1`
BackdropAlpha == 800       \* `this.ctx.globalAlpha = 0.8`
NewContext == [globalAlpha |-> OpaqueAlpha, saved |-> <<>>, drawImage |-> <<>>]
CtxSave(c) == [c EXCEPT !.saved = Append(c.saved, c.globalAlpha)]
CtxRestore(c) ==
    IF c.saved = <<>> THEN c
    ELSE [c EXCEPT !.globalAlpha = c.saved[Len(c.saved)],
                   !.saved = SubSeq(c.saved, 1, Len(c.saved) - 1)]
CtxSetAlpha(c, a) == [c EXCEPT !.globalAlpha = a]
CtxDrawImage(c, what) ==
    [c EXCEPT !.drawImage = Append(c.drawImage,
                                   [what |-> what, alpha |-> c.globalAlpha])]

\* drawStaticImage: save, `globalAlpha = 1`, drawImage, restore
DrawStaticImage(c, what) ==
    CtxRestore(CtxDrawImage(CtxSetAlpha(CtxSave(c), OpaqueAlpha), what))

\* drawScaledVideoFrame and drawScaledVideoFrameWithBackground: save,
\* drawImage, restore
DrawScaledVideoFrame(c, what) == CtxRestore(CtxDrawImage(CtxSave(c), what))

\* drawVideoFrameWithBackground on context c: the backdrop between save and
\* restore, then drawVideoFrame
DrawVideoFrameWithBackground(c, items, cur, bg, cache, currentTime) ==
    LET dimmed == CtxSetAlpha(CtxSave(c), BackdropAlpha)
        backdrop ==
            IF bg = 0 THEN c
            ELSE IF items[bg].type = "image"
                 THEN CtxRestore(DrawStaticImage(dimmed, "backdropImage"))
                 ELSE IF DrawBackdrop(items, bg, cache) # <<>>
                      THEN CtxRestore(DrawScaledVideoFrame(dimmed, "backdropVideo"))
                      ELSE CtxRestore(dimmed)
    IN  IF DrawVideoFrame(items[cur], cache, currentTime)
               = <<Op("clip", "videoFrame")>>
        THEN DrawScaledVideoFrame(backdrop, "videoFrame")
        ELSE backdrop

\* what one renderVideoFrame call resolved and drew in its clip stage: the
\* list it was handed, the index of currentMediaItem and of
\* backgroundMediaItem in it (0 = null), and for a video the context after
\* drawVideoFrameWithBackground
RenderProbe(items, cache, currentTime) ==
    LET cur == ResolveCurrent(items, currentTime)
        bg == FindBackground(items, cur, cache)
    IN  [fn |-> "renderVideoFrame", items |-> items,
         currentMediaItem |-> cur, backgroundMediaItem |-> bg,
         ctx |-> IF cur # 0 /\ items[cur].type = "video"
                 THEN DrawVideoFrameWithBackground(NewContext, items, cur, bg,
                                                   cache, currentTime)
                 ELSE NewContext]

\* drawVideoFrame: `img.onload = () => this.drawScaledVideoFrame(img, ...)`
\* of a render whose operations are ops; one such callback is outstanding
\* at a time
SchedulesOnload(ops) ==
    \E i \in 1..Len(ops) : ops[i] = Op("clip", "previewFrameOnLoad")
ScheduleOnload(ops) ==
    IF SchedulesOnload(ops)
    THEN ~pendingOnload /\ pendingOnload' = TRUE
    ELSE UNCHANGED pendingOnload

\* the load event of that image: drawScaledVideoFrame fills the canvas black
\* and draws the preview frame over whatever the raster holds (an image that
\* fails to load draws nothing: no onerror handler is set)
PreviewFrameOnLoad(loaded) ==
    /\ pendingOnload
    /\ pendingOnload' = FALSE
    /\ probe' = [fn |-> "img.onload",
                 drawImage |-> IF loaded
                               THEN DrawScaledVideoFrame(NewContext,
                                                         "previewFrame").drawImage
                               ELSE <<>>,
                 over |-> stages]
    /\ UNCHANGED <<renderFrame, effectIntensity, videoDuration, projVars,
                   isGenerating, previewCurrentTime, videoFrameCache, nextId,
                   pendingVideos, loading, renderVars, stages>>

EffectOptions == {"none", "film"}

\* renderPreviewFrame: `[...this.mediaItems].sort(...)` sorts a copy, and
\* this.mediaItems is left as it was
SortedInPlace(items) == SortByTimestamp(items)
SortedCopy(items) == items

\* renderPreviewFrame(t) with the effect and copyright controls as they
\* stand at the call
RenderFrame(t, effect, watermark) ==
    LET items == SortByTimestamp(mediaItems) IN
    /\ mediaItems' = SortedCopy(mediaItems)
    /\ query' = t
    /\ currentMediaItem' = ResolveCurrent(items, t)
    /\ drawn' = DrawnCaptions(subtitles, t)
    /\ stages' = RenderStages(items, videoFrameCache, subtitles, t, t,
                              effect, watermark)
    /\ probe' = RenderProbe(items, videoFrameCache, t)
    /\ ScheduleOnload(RenderStages(items, videoFrameCache, subtitles, t, t,
                                   effect, watermark))
    /\ UNCHANGED <<renderFrame, effectIntensity, videoDuration, subtitles,
                   isGenerating, previewCurrentTime, videoFrameCache, nextId,
                   pendingVideos, loading>>

\* ----------------------------------------------- duration changes, load

\* `item.timestamp = Math.min(item.timestamp, this.videoDuration)` for every
\* item past the new duration d (seconds)
ClampTimestamps(items, d) ==
    [i \in 1..Len(items) |->
        IF items[i].timestamp > d * Second
        THEN [items[i] EXCEPT !.timestamp = Min(items[i].timestamp, d * Second)]
        ELSE items[i]]

\* handleAudioUpload's loop over this.subtitles, for the new duration d
ClampSubtitles(subs, d) ==
    [i \in 1..Len(subs) |->
        LET start == IF subs[i].start > d THEN Min(subs[i].start, d)
                     ELSE subs[i].start
        IN  [start |-> start,
             duration |-> IF start + subs[i].duration > d
                          THEN Max(1, d - start)
                          ELSE subs[i].duration]]

\* `change` on the duration control: the handler does not visit
\* this.subtitles
ClampSubtitlesOnChange(subs, d) == subs

DurationChoices == 1..(MaxDuration + 1)

\* `change` on the videoDuration control
ChangeDuration(d) ==
    /\ videoDuration' = d
    /\ mediaItems' = ClampTimestamps(mediaItems, d)
    /\ subtitles' = ClampSubtitlesOnChange(subtitles, d)
    /\ isGenerating' = OnSettingsChanged(isGenerating)
    /\ NoRender
    /\ UNCHANGED <<libFrame, probe, effectIntensity, previewCurrentTime,
                   videoFrameCache, nextId, pendingVideos, loading>>

\* handleAudioUpload: `loadedmetadata` of the audio element, d the audio
\* length rounded up
AudioLoadedMetadata(d) ==
    /\ videoDuration' = d
    /\ mediaItems' = ClampTimestamps(mediaItems, d)
    /\ subtitles' = ClampSubtitles(subtitles, d)
    /\ NoRender
    /\ UNCHANGED <<libFrame, probe, effectIntensity, isGenerating, previewCurrentTime,
                   videoFrameCache, nextId, pendingVideos, loading>>

\* A saved project: settings.duration (0 = absent), the media items and the
\* captions.  A saved video carries its frame list (or none) and possibly a
\* preview frame; the flags of `frames` tell which images load on restore.
SavedImage(ts) == [type |-> "image", timestamp |-> ts]
SavedVideo(ts, d, hasFrames, frames, preview) ==
    [type |-> "video", timestamp |-> ts, duration |-> d,
     hasFrames |-> hasFrames, frames |-> frames, preview |-> preview]

SavedItems ==
    {SavedImage(0),
     SavedVideo(Second, 1, TRUE, AllLoaded(FramesPerUnit), TRUE),
     SavedVideo(0, 0, FALSE, <<>>, TRUE)}

SavedSubtitles == {<<[start |-> 0, duration |-> 1]>>}

ProjectFiles ==
    {[duration |-> d, items |-> its, subtitles |-> subs] :
        d \in {0},
        its \in {<<>>} \cup {<<a>> : a \in SavedItems}
                  \cup {<<a, b>> : a \in {SavedImage(0)}, b \in SavedItems},
        subs \in SavedSubtitles}

\* loadProjectFromJSON up to its first await: resetProject, the settings,
\* onSettingsChanged, `this.mediaItems = []`
LoadProjectBegin(data) ==
    /\ loading = <<>>
    /\ mediaItems' = <<>>
    /\ subtitles' = <<>>
    /\ videoFrameCache' = MapClear
    /\ videoDuration' = IF data.duration # 0 THEN data.duration ELSE 30
    /\ effectIntensity' = IntValue(50)
    /\ isGenerating' = OnSettingsChanged(isGenerating)
    /\ loading' = <<[items |-> data.items, subtitles |-> data.subtitles]>>
    /\ staleImports' = InFlight
    /\ probe' = NoProbe
    /\ NoRender
    /\ UNCHANGED <<importFrame, pendingOnload, previewCurrentTime, nextId,
                   pendingVideos>>

\* loadProjectFromJSON: one media item restored (`item.duration || 10`)
RestoredItem(item, id) ==
    IF item.type = "image" THEN ImageItem(id, item.timestamp)
    ELSE VideoItem(id, item.timestamp,
                   IF item.duration # 0 THEN item.duration ELSE 10 * Second,
                   TRUE, item.preview)
LoadNextItem ==
    /\ loading # <<>>
    /\ loading[1].items # <<>>
    /\ Len(mediaItems) < MaxClips
    /\ nextId <= MaxIds
    /\ LET item == Head(loading[1].items) IN
       /\ videoFrameCache' =
              IF item.type = "video" /\ item.hasFrames
              THEN MapSet(videoFrameCache, nextId, item.frames)
              ELSE videoFrameCache
       /\ mediaItems' = Append(mediaItems, RestoredItem(item, nextId))
    /\ nextId' = nextId + 1
    /\ loading' = <<[loading[1] EXCEPT !.items = Tail(loading[1].items)]>>
    /\ probe' = NoProbe
    /\ NoRender
    /\ UNCHANGED <<libFrame, effectIntensity, videoDuration, subtitles,
                   isGenerating, previewCurrentTime, pendingVideos>>

\* loadProjectFromJSON after the last item: the captions, then
\* `previewCurrentTime = 0; renderPreviewFrame(0)`
LoadProjectEnd(effect, watermark) ==
    /\ loading # <<>>
    /\ loading[1].items = <<>>
    /\ subtitles' = loading[1].subtitles
    /\ previewCurrentTime' = 0
    /\ loading' = <<>>
    /\ LET items == SortByTimestamp(mediaItems) IN
       /\ query' = 0
       /\ currentMediaItem' = ResolveCurrent(items, 0)
       /\ drawn' = DrawnCaptions(loading[1].subtitles, 0)
       /\ stages' = RenderStages(items, videoFrameCache, loading[1].subtitles,
                                 0, 0, effect, watermark)
    /\ probe' = NoProbe
    /\ ScheduleOnload(RenderStages(SortByTimestamp(mediaItems), videoFrameCache,
                                   loading[1].subtitles, 0, 0, effect, watermark))
    /\ UNCHANGED <<renderFrame, effectIntensity, videoDuration, mediaItems,
                   isGenerating, videoFrameCache, nextId, pendingVideos>>

\* ------------------------------------------------------ specifications

InitLibrary ==
    /\ now = 1
    /\ videoDuration = MaxDuration
    /\ fpsValue = 1
    /\ mediaItems = <<>>
    /\ subtitles = <<>>
    /\ isGenerating = FALSE
    /\ activeGenerationId = 0
    /\ uiLocked = FALSE
    /\ animationStartTime = 0
    /\ previewPlaying = FALSE
    /\ previewStartTime = 0
    /\ previewCurrentTime = 0
    /\ previewAnimation = FALSE
    /\ runs = [r \in RunIds |-> NoRun]
    /\ calls = <<>>
    /\ query = -1
    /\ currentMediaItem = 0
    /\ drawn = {}
    /\ AuxInit

ImportStep ==
    \/ ProcessImageFile
    \/ \E d \in VideoLengths : VideoLoadedMetadata(d)
    \/ \E v \in pendingVideos :
           \E frames \in ExtractedFrames(v.duration) :
               VideoFramesExtracted(v, frames)

\* imports and timestamp edits, the duration fixed
NextClips ==
    \/ ImportStep
    \/ \E i \in 1..MaxClips, text \in ClipTimeInputs : EditTimestamp(i, text)

SpecClips == InitLibrary /\ [][NextClips]_vars

\* C11: with the timeline duration fixed, after any sequence of imports and
\* timestamp edits every clip has start >= 0 and start + duration <=
\* videoDuration, an Image counting 2 seconds and a Video its media length.
C11_ClipsFit ==
    \A i \in 1..Len(mediaItems) :
        /\ mediaItems[i].timestamp >= 0
        /\ mediaItems[i].timestamp + RefDuration(mediaItems[i])
               <= videoDuration * Second

\* imports, timestamp edits, caption entry and both ways of changing the
\* timeline duration
CaptionStarts == {TimeText(0, s) : s \in 0..MaxDuration}
CaptionLengths == {NumberValue(1), NumberValue(2)}

NextDuration ==
    \/ ProcessImageFile
    \/ \E i \in 1..MaxClips, text \in ClipTimeInputs : EditTimestamp(i, text)
    \/ \E st \in CaptionStarts, dv \in CaptionLengths : AddSubtitle(st, dv)
    \/ \E d \in DurationChoices : ChangeDuration(d)
    \/ \E d \in DurationChoices : AudioLoadedMetadata(d)

SpecDuration == InitLibrary /\ [][NextDuration]_vars

\* C12: a step that changes the timeline duration, by the control's change
\* handler or by the audio metadata, leaves no clip with start >
\* videoDuration and no caption with start > videoDuration or
\* start + duration > videoDuration.
C12_ReclampOnDurationChange ==
    [][videoDuration' # videoDuration =>
          /\ \A i \in 1..Len(mediaItems') :
                 mediaItems'[i].timestamp <= videoDuration' * Second
          /\ \A i \in 1..Len(subtitles') :
                 /\ subtitles'[i].start <= videoDuration'
                 /\ subtitles'[i].start + subtitles'[i].duration
                        <= videoDuration']_vars

\* imports, removal, reset and project load
RemoveInputs == {NumberKey(id) : id \in 1..MaxIds} \cup {StringKey(id) : id \in 1..MaxIds}

NextCache ==
    \/ ProcessImageFile
    \/ VideoLoadedMetadata(1)
    \/ \E v \in pendingVideos :
           VideoFramesExtracted(v, AllLoaded(v.duration * FramesPerUnit))
    \/ \E itemId \in RemoveInputs : RemoveMediaItem(itemId)
    \/ ResetProject
    \/ \E data \in ProjectFiles : LoadProjectBegin(data)
    \/ LoadNextItem
    \/ LoadProjectEnd("none", FALSE)
    \/ \E loaded \in BOOLEAN : PreviewFrameOnLoad(loaded)

SpecCache == InitLibrary /\ [][NextCache]_vars

\* The libraries rendered: up to MaxRenderClips clips, each as an import or
\* a project load leaves it.  An imported video has a frame list, with every
\* image loaded or none; a restored video has a frame list, an empty one or
\* none, and may have a preview frame.
MaxRenderClips == 2

RenderClipKinds ==
    {[type |-> "image", restored |-> FALSE, preview |-> FALSE, cache |-> "absent"]}
        \cup {[type |-> "video", restored |-> FALSE, preview |-> TRUE, cache |-> c] :
                 c \in {"loaded", "broken"}}
        \cup {[type |-> "video", restored |-> TRUE, preview |-> TRUE, cache |-> c] :
                 c \in {"absent", "empty", "loaded", "broken"}}
        \cup {[type |-> "video", restored |-> TRUE, preview |-> FALSE, cache |-> "absent"]}

RenderStarts == {0, Second}

\* the clip and the cache entry of a kind
ClipOf(kind, id, ts) ==
    IF kind.type = "image" THEN ImageItem(id, ts)
    ELSE VideoItem(id, ts, 1, kind.restored, kind.preview)
FramesOf(kind) ==
    IF kind.cache = "loaded" THEN AllLoaded(FramesPerUnit)
    ELSE IF kind.cache = "broken" THEN NoneLoaded(FramesPerUnit)
    ELSE <<>>

RenderTimes == {0, 1, Second, Second + 1}
RenderCaptions == {<<>>, <<[start |-> 0, duration |-> 2]>>}

InitRender ==
    /\ \E n \in 0..MaxRenderClips :
          \E kinds \in [1..n -> RenderClipKinds], starts \in [1..n -> RenderStarts] :
              /\ mediaItems = [i \in 1..n |-> ClipOf(kinds[i], i, starts[i])]
              /\ videoFrameCache =
                     [i \in {j \in 1..n : kinds[j].cache # "absent"} |->
                         FramesOf(kinds[i])]
              /\ nextId = n + 1
    /\ subtitles \in RenderCaptions
    /\ now = 1
    /\ videoDuration = MaxDuration
    /\ fpsValue = 1
    /\ isGenerating = FALSE
    /\ activeGenerationId = 0
    /\ uiLocked = FALSE
    /\ animationStartTime = 0
    /\ previewPlaying = FALSE
    /\ previewStartTime = 0
    /\ previewCurrentTime = 0
    /\ previewAnimation = FALSE
    /\ runs = [r \in RunIds |-> NoRun]
    /\ calls = <<>>
    /\ query = -1
    /\ currentMediaItem = 0
    /\ drawn = {}
    /\ pendingVideos = {}
    /\ loading = <<>>
    /\ stages = <<>>
    /\ effectIntensity = IntValue(50)
    /\ probe = NoProbe
    /\ currentMediaRecorder = 0
    /\ currentVideoStream = 0
    /\ pendingOnload = FALSE
    /\ staleImports = {}

NextRender ==
    \E t \in RenderTimes, effect \in EffectOptions, watermark \in BOOLEAN :
        RenderFrame(t, effect, watermark)

SpecRender == InitRender /\ [][NextRender]_vars

\* C17: every key of videoFrameCache is the id of a clip in mediaItems, and
\* when removeMediaItem returns, whether the id was passed as a number or
\* as a string, the cache holds no entry for the clip it removed.
C17_CacheKeysAreClips ==
    /\ \A k \in DOMAIN videoFrameCache :
           \E i \in 1..Len(mediaItems) : mediaItems[i].id = k
    /\ probe.fn = "removeMediaItem" => probe.item.id \notin DOMAIN videoFrameCache

\* a Video with cached frames was removed through the string form of its
\* id while another video stays cached
C17_Witness ==
    /\ probe.fn = "removeMediaItem"
    /\ probe.itemId.form = "string"
    /\ probe.item.type = "video"
    /\ probe.item.preview
    /\ probe.item.id \notin DOMAIN videoFrameCache
    /\ \E i \in 1..Len(mediaItems) :
           mediaItems[i].type = "video" /\ mediaItems[i].id \in DOMAIN videoFrameCache

\* the stages of a frame in their fixed order
StageRank(stage) ==
    CASE stage = "background" -> 1
      [] stage = "clip" -> 2
      [] stage = "effect" -> 3
      [] stage = "caption" -> 4
      [] stage = "watermark" -> 5

StageOps(stage) == SelectSeq(stages, LAMBDA op : op.stage = stage)

RECURSIVE RasterAfter(_, _)
RasterAfter(ops, raster) ==
    IF ops = <<>> THEN raster
    ELSE RasterAfter(Tail(ops),
                     IF Head(ops).what = "fillBlack" THEN "black"
                     ELSE IF Head(ops).what = "previewFrameOnLoad" THEN raster
                     ELSE Head(ops).what)

\* the resolved clip is a Video without a decoded frame for the sample time
NoDecodedFrame(items, cache, t) ==
    LET cur == ResolveCurrent(items, t) IN
    /\ cur # 0
    /\ items[cur].type = "video"
    /\ \/ ~HasFrames(cache, items[cur])
       \/ ~cache[items[cur].id][ClosestFrame(cache[items[cur].id],
              Max(0, Min(t - items[cur].timestamp, items[cur].duration)))]

\* C15: when the resolved clip is a Video with no cache entry, an empty
\* cache or an unloaded nearest frame, the raster is black after the clip
\* stage.
C15_MissingFrameIsBlack ==
    (query >= 0 /\ NoDecodedFrame(SortByTimestamp(mediaItems), videoFrameCache, query)) =>
        RasterAfter(StageOps("background") \o StageOps("clip"), "stale") = "black"

\* C16: a renderVideoFrame call leaves mediaItems, subtitles,
\* videoFrameCache, videoDuration, isGenerating, activeGenerationId,
\* previewPlaying and previewCurrentTime as they were.
C16_RenderWritesRasterOnly ==
    [][query' >= 0 =>
          UNCHANGED <<mediaItems, subtitles, videoFrameCache, videoDuration,
                      isGenerating, activeGenerationId, previewPlaying,
                      previewCurrentTime>>]_vars

\* a frame was rendered from a library that is not in timestamp order
C16_Witness ==
    /\ query >= 0
    /\ Len(stages) >= 3
    /\ Len(mediaItems) = 2
    /\ mediaItems[1].timestamp > mediaItems[2].timestamp

\* ===================================================================
\* The catch-up cap of animateVideo (checked under SpecCatchUp)
\* ===================================================================

\* a callback that arrives late: the clock jumps by more frame times than
\* one callback may emit
LateSteps == {1, MaxCatchUp + 2}
LateNow == MaxNow + MaxCatchUp + 2

Late(d) ==
    /\ now + d <= LateNow
    /\ now' = now + d
    /\ calls' = <<>>
    /\ UNCHANGED <<auxVars, videoDuration, fpsValue, projVars, isGenerating,
                   activeGenerationId, uiLocked, animationStartTime,
                   previewVars, runs, renderVars>>

\* a duration whose run has more frames than the cap at the higher rate
LongDurations == {MaxCatchUp - 1}

InitCatchUp ==
    /\ now = 1
    /\ videoDuration \in LongDurations
    /\ fpsValue \in FpsOptions
    /\ mediaItems = SampleProject
    /\ subtitles = <<>>
    /\ isGenerating = FALSE
    /\ activeGenerationId = 0
    /\ uiLocked = FALSE
    /\ animationStartTime = 0
    /\ previewPlaying = FALSE
    /\ previewStartTime = 0
    /\ previewCurrentTime = 0
    /\ previewAnimation = FALSE
    /\ runs = [r \in RunIds |-> NoRun]
    /\ calls = <<>>
    /\ query = -1
    /\ currentMediaItem = 0
    /\ drawn = {}
    /\ AuxInit

NextCatchUp ==
    \/ GenerateVideo
    \/ \E r \in RunIds : AnimateVideo(r)
    \/ \E r \in RunIds : Animate(r)
    \/ \E r \in RunIds : Settle(r)
    \/ \E r \in RunIds : Finally(r)
    \/ StopGeneration
    \/ \E d \in LateSteps : Late(d)

SpecCatchUp == InitCatchUp /\ [][NextCatchUp]_vars

\* frames the fixed-timestep schedule owes run r at the current clock value
Owed(r) ==
    Min((now - runs[r].lastFrameTime) \div FrameTime(runs[r].fps),
        runs[r].totalFrames - runs[r].currentFrame)

\* C21: one callback of animate emits at most 6 samples however late it
\* fires; it emits the owed frames up to that cap, advances lastFrameTime by
\* exactly the emitted frames, so that the frames beyond the cap stay owed,
\* and reschedules itself while frames remain.
C21_CatchUpCap ==
    [][ \A r \in RunIds :
            (/\ runs[r].pc = "raf"
             /\ LoopState(runs'[r]) # LoopState(runs[r])
             /\ runs'[r].exit # "aborted"
             /\ runs'[r].stopped = runs[r].stopped) =>
                LET n == Len(calls') IN
                /\ n <= MaxCatchUp + 1
                /\ n = Min(Owed(r), MaxCatchUp + 1)
                /\ \A i \in 1..n : calls'[i].frame = runs[r].currentFrame + i - 1
                /\ runs'[r].currentFrame = runs[r].currentFrame + n
                /\ runs'[r].lastFrameTime
                       = runs[r].lastFrameTime + n * FrameTime(runs[r].fps)
                /\ runs'[r].currentFrame < runs'[r].totalFrames =>
                       runs'[r].pc = "raf" ]_vars

\* a callback has just emitted 6 samples and the run still owes a frame that
\* is due at the same clock value
C21_Witness ==
    \E r \in RunIds :
        /\ runs[r].pc = "raf"
        /\ Len(calls) = MaxCatchUp + 1
        /\ calls[1].run = runs[r].runId
        /\ Owed(r) >= 1

\* ===================================================================
\* The backdrop of a video clip (checked under SpecBackdrop)
\* ===================================================================

\* Libraries of up to MaxClips clips: images, imported videos with their
\* frames, restored videos with an empty frame list or with none.
BackdropKinds ==
    {[type |-> "image", restored |-> FALSE, preview |-> FALSE, cache |-> "absent"],
     [type |-> "video", restored |-> FALSE, preview |-> TRUE, cache |-> "loaded"],
     [type |-> "video", restored |-> TRUE, preview |-> TRUE, cache |-> "empty"],
     [type |-> "video", restored |-> TRUE, preview |-> FALSE, cache |-> "absent"]}

BackdropStarts == {0, 1, Second}
BackdropTimes == {1, Second}

InitBackdrop ==
    /\ \E n \in 0..MaxClips :
          \E kinds \in [1..n -> BackdropKinds], starts \in [1..n -> BackdropStarts] :
              /\ mediaItems = [i \in 1..n |-> ClipOf(kinds[i], i, starts[i])]
              /\ videoFrameCache =
                     [i \in {j \in 1..n : kinds[j].cache # "absent"} |->
                         FramesOf(kinds[i])]
              /\ nextId = n + 1
    /\ subtitles = <<>>
    /\ now = 1
    /\ videoDuration = MaxDuration
    /\ fpsValue = 1
    /\ isGenerating = FALSE
    /\ activeGenerationId = 0
    /\ uiLocked = FALSE
    /\ animationStartTime = 0
    /\ previewPlaying = FALSE
    /\ previewStartTime = 0
    /\ previewCurrentTime = 0
    /\ previewAnimation = FALSE
    /\ runs = [r \in RunIds |-> NoRun]
    /\ calls = <<>>
    /\ query = -1
    /\ currentMediaItem = 0
    /\ drawn = {}
    /\ pendingVideos = {}
    /\ loading = <<>>
    /\ stages = <<>>
    /\ effectIntensity = IntValue(50)
    /\ probe = NoProbe
    /\ currentMediaRecorder = 0
    /\ currentVideoStream = 0
    /\ pendingOnload = FALSE
    /\ staleImports = {}

NextBackdrop == \E t \in BackdropTimes : RenderFrame(t, "none", FALSE)

SpecBackdrop == InitBackdrop /\ [][NextBackdrop]_vars

\* the clips of a list that start strictly before clip cur and may serve as
\* its backdrop: the images, and the videos that have cached frames
EarlierImages(items, cur) ==
    {i \in 1..Len(items) : /\ items[i].type = "image"
                           /\ items[i].timestamp < items[cur].timestamp}
EarlierVideosWithFrames(items, cur, cache) ==
    {i \in 1..Len(items) : /\ items[i].type = "video"
                           /\ items[i].timestamp < items[cur].timestamp
                           /\ HasFrames(cache, items[i])}
LatestStarting(items, S, i) ==
    i \in S /\ \A j \in S : items[j].timestamp <= items[i].timestamp

\* C22: for a resolved Video the backdrop is a latest-starting Image among
\* the clips that start strictly earlier, if there is one; otherwise a
\* latest-starting strictly earlier Video with a non-empty frame cache;
\* otherwise none.  It is never the active clip nor a clip that starts at
\* or after it, and a resolved Image (or no clip) has no backdrop.
C22_BackdropChoice ==
    probe.fn = "renderVideoFrame" =>
        LET items == probe.items
            cur == probe.currentMediaItem
            bg == probe.backgroundMediaItem
        IN  IF cur = 0 \/ items[cur].type # "video" THEN bg = 0
            ELSE /\ bg # cur
                 /\ bg # 0 => items[bg].timestamp < items[cur].timestamp
                 /\ IF EarlierImages(items, cur) # {}
                    THEN LatestStarting(items, EarlierImages(items, cur), bg)
                    ELSE IF EarlierVideosWithFrames(items, cur, videoFrameCache) # {}
                    THEN LatestStarting(items,
                             EarlierVideosWithFrames(items, cur, videoFrameCache), bg)
                    ELSE bg = 0

\* a video is active, an earlier video with cached frames starts later than
\* an earlier image, and the image is the backdrop
C22_Witness ==
    /\ probe.fn = "renderVideoFrame"
    /\ probe.currentMediaItem # 0
    /\ probe.backgroundMediaItem # 0
    /\ probe.items[probe.backgroundMediaItem].type = "image"
    /\ \E i \in EarlierVideosWithFrames(probe.items, probe.currentMediaItem,
                                         videoFrameCache) :
           probe.items[i].timestamp
               > probe.items[probe.backgroundMediaItem].timestamp

\* the drawImage calls of the latest render that drew a backdrop
BackdropDraws ==
    {i \in 1..Len(probe.ctx.drawImage) :
        probe.ctx.drawImage[i].what \in {"backdropImage", "backdropVideo"}}

\* C23: when a Video is active and has a backdrop, the backdrop is drawn
\* before the clip's own frame and with a global alpha below 1, whether it
\* is an Image or the last cached frame of a Video, and the global alpha is
\* afterwards what it was before the call.
C23_BackdropDimmedFirst ==
    (probe.fn = "renderVideoFrame" /\ probe.backgroundMediaItem # 0) =>
        /\ \A i \in BackdropDraws :
               /\ probe.ctx.drawImage[i].alpha < OpaqueAlpha
               /\ \A j \in 1..Len(probe.ctx.drawImage) :
                      probe.ctx.drawImage[j].what = "videoFrame" => i < j
        /\ probe.ctx.globalAlpha = NewContext.globalAlpha
        /\ probe.ctx.saved = <<>>

\* ===================================================================
\* The caption fade of drawSubtitles (checked under SpecFade)
\* ===================================================================

\* Caption times in hundredths of a second, alpha in thousandths.
FadeTime == 20                \* `const fadeTime = 0.2`
FineSecond == 5 * FadeTime    \* one second, in hundredths

\* drawSubtitles: the alpha of the caption sub at relative time r
CaptionAlphaNoFadeOut(relativeTime, duration) ==
    Max(0, Min(OpaqueAlpha,
        IF relativeTime < FadeTime
        THEN (relativeTime * OpaqueAlpha) \div FadeTime
        ELSE OpaqueAlpha))
CaptionAlpha(relativeTime, duration) ==
    Max(0, Min(OpaqueAlpha,
        IF relativeTime < FadeTime
        THEN (relativeTime * OpaqueAlpha) \div FadeTime
        ELSE IF relativeTime > duration * FineSecond - FadeTime
        THEN ((duration * FineSecond - relativeTime) * OpaqueAlpha) \div FadeTime
        ELSE OpaqueAlpha))

\* drawSubtitles(currentTime): `active[0]` of the filtered, sorted captions
\* (0 = none) and the alpha it is drawn with
ActiveFine(s, currentTime) ==
    /\ currentTime >= s.start * FineSecond
    /\ currentTime < (s.start + s.duration) * FineSecond
FirstActive(subs, currentTime) ==
    LET active == {i \in 1..Len(subs) : ActiveFine(subs[i], currentTime)}
    IN  IF active = {} THEN 0
        ELSE CHOOSE i \in active :
                 \A j \in active :
                     \/ subs[i].start < subs[j].start
                     \/ (subs[i].start = subs[j].start /\ i <= j)

FadeSubtitles(currentTime) ==
    LET i == FirstActive(subtitles, currentTime) IN
    /\ drawn' = IF i = 0 THEN {} ELSE {i}
    /\ probe' =
          IF i = 0 THEN [fn |-> "drawSubtitles", sub |-> 0, currentTime |-> currentTime]
          ELSE LET relativeTime == Max(0, currentTime - subtitles[i].start * FineSecond)
               IN  [fn |-> "drawSubtitles", sub |-> i, currentTime |-> currentTime,
                    relativeTime |-> relativeTime,
                    alpha |-> CaptionAlpha(relativeTime, subtitles[i].duration)]
    /\ UNCHANGED <<recVars, pendingOnload, staleImports, now, videoDuration, fpsValue, projVars, isGenerating,
                   activeGenerationId, uiLocked, animationStartTime,
                   previewVars, runs, calls, query, currentMediaItem,
                   videoFrameCache, nextId, pendingVideos, loading, stages,
                   effectIntensity>>

FadeCaptions ==
    {<<[start |-> 2, duration |-> 3]>>,
     <<[start |-> 0, duration |-> 1]>>,
     <<[start |-> 1, duration |-> 2], [start |-> 0, duration |-> 2]>>}

FadeQueryTimes == 0..(MaxSubTime * FineSecond)

InitFadeCaptions ==
    /\ subtitles \in FadeCaptions
    /\ videoDuration = MaxSubTime - 1
    /\ mediaItems = SampleProject
    /\ now = 1
    /\ fpsValue = 1
    /\ isGenerating = FALSE
    /\ activeGenerationId = 0
    /\ uiLocked = FALSE
    /\ animationStartTime = 0
    /\ previewPlaying = FALSE
    /\ previewStartTime = 0
    /\ previewCurrentTime = 0
    /\ previewAnimation = FALSE
    /\ runs = [r \in RunIds |-> NoRun]
    /\ calls = <<>>
    /\ query = -1
    /\ currentMediaItem = 0
    /\ drawn = {}
    /\ AuxInit

NextFade == \E t \in FadeQueryTimes : FadeSubtitles(t)

SpecFade == InitFadeCaptions /\ [][NextFade]_vars

\* C24: a drawn caption of duration d >= 1 at elapsed time r = t - start has
\* alpha r/0.2 when r < 0.2, (d - r)/0.2 when r > d - 0.2 and 1 otherwise;
\* the alpha lies in [0, 1], is 0 at r = 0 and 0.5 at r = 0.1 and at
\* r = d - 0.1 (t = 2.1 and t = 4.9 for start 2, duration 3).
C24_CaptionFade ==
    (probe.fn = "drawSubtitles" /\ probe.sub # 0) =>
        LET sub == subtitles[probe.sub]
            d == sub.duration * FineSecond
            r == probe.currentTime - sub.start * FineSecond
        IN  /\ r >= 0 /\ r < d
            /\ r < FadeTime => probe.alpha * FadeTime = r * OpaqueAlpha
            /\ r > d - FadeTime => probe.alpha * FadeTime = (d - r) * OpaqueAlpha
            /\ (r >= FadeTime /\ r <= d - FadeTime) => probe.alpha = OpaqueAlpha
            /\ probe.alpha >= 0 /\ probe.alpha <= OpaqueAlpha
            /\ r = 0 => probe.alpha = 0
            /\ 2 * r = FadeTime => 2 * probe.alpha = OpaqueAlpha
            /\ 2 * (d - r) = FadeTime => 2 * probe.alpha = OpaqueAlpha
            /\ (sub = [start |-> 2, duration |-> 3]
                  /\ probe.currentTime \in {2 * FineSecond + FadeTime \div 2,
                                            5 * FineSecond - FadeTime \div 2}) =>
                   2 * probe.alpha = OpaqueAlpha

\* the caption {start 2, duration 3} drawn at t = 4.9 with alpha 0.5
C24_Witness ==
    /\ probe.fn = "drawSubtitles"
    /\ probe.sub # 0
    /\ subtitles[probe.sub] = [start |-> 2, duration |-> 3]
    /\ probe.currentTime = 5 * FineSecond - FadeTime \div 2
    /\ 2 * probe.alpha = OpaqueAlpha

\* ===================================================================
\* The recorder and the unwinding of a cancelled run (checked under
\* SpecRecorder)
\* ===================================================================

InitRecorder == Init /\ fpsValue = 1 /\ videoDuration = MaxDuration

NextRecorder ==
    \/ GenerateVideo
    \/ \E r \in RunIds : AnimateVideo(r)
    \/ \E r \in RunIds : Animate(r)
    \/ \E r \in RunIds : Settle(r)
    \/ \E r \in RunIds : Finally(r)
    \/ \E r \in RunIds : RecorderOnStop(r)
    \/ StopGeneration
    \/ Tick(1)

SpecRecorder == InitRecorder /\ [][NextRecorder]_vars

\* run q is the generating run while run r has been cancelled
Replaced(r, q) ==
    /\ q # r
    /\ runs[r].stopped
    /\ isGenerating
    /\ runs[q].runId = activeGenerationId
    /\ runs[q].pc \notin {"none", "done"}

\* C25: when a run was cancelled and a new run was started before the
\* cancelled generateVideo call finished, the remaining steps of the
\* cancelled call (the aborting callback, the waits, the recorder stop and
\* the finally block) leave isGenerating, activeGenerationId,
\* the new run's currentMediaRecorder and capture stream alone, and the new
\* run is not aborted.
C25_StaleRunIsInert ==
    [][ /\ \A r, q \in RunIds :
               (Replaced(r, q) /\ runs[r].pc \in {"raf", "settle", "post"}
                /\ runs'[r].pc # runs[r].pc) =>
                   /\ UNCHANGED <<isGenerating, activeGenerationId,
                                  currentVideoStream>>
                   /\ currentMediaRecorder = runs[q].runId =>
                          UNCHANGED currentMediaRecorder
                   /\ runs'[q] = runs[q]
        /\ \A q \in RunIds : runs'[q].exit = "aborted" => runs'[q].stopped ]_vars

\* C26: a run ended by stopGeneration publishes nothing: a run whose
\* recorder delivered a result (showVideoResult, generatedVideoBlob, the
\* success notification) was not stopped and emitted all its frames.
C26_StoppedRunPublishesNothing ==
    \A r \in RunIds :
        runs[r].published =>
            /\ ~runs[r].stopped
            /\ Len(runs[r].emitted) = runs[r].totalFrames

\* ===================================================================
\* Preview renders during a capture (checked under SpecUI)
\* ===================================================================

\* run r is Running: its loop is scheduled and holds the generation token
Running(r) ==
    /\ runs[r].pc = "raf"
    /\ isGenerating
    /\ activeGenerationId = runs[r].runId

\* C27: while a capture run is Running, between its samples, no render
\* reaches the canvas from the preview path (seekPreview or the input
\* handlers of the intensity, float and copyright controls): every render
\* made while a run that has emitted a sample is Running is one of that
\* run's samples.
C27_OnlyCaptureSamples ==
    \A r \in RunIds :
        (Running(r) /\ runs[r].emitted # <<>>) =>
            \A i \in 1..Len(calls) :
                calls[i].src = "capture" /\ calls[i].run = runs[r].runId

\* ===================================================================
\* Deferred draws (checked under SpecCache)
\* ===================================================================

\* C28: every raster write of a renderVideoFrame call happens before the
\* call returns, for every clip kind: no callback scheduled by a render
\* draws on the canvas afterwards, over the effect, caption and watermark
\* of the frame or during a later frame.
C28_NoDeferredDraw ==
    probe.fn = "img.onload" => probe.drawImage = <<>>

\* ===================================================================
\* Termination of a capture run (checked under SpecLive)
\* ===================================================================

\* The clock while a loop waits for its next frame time: it advances until
\* a frame of some scheduled loop is due.
Advance ==
    /\ \E r \in RunIds :
           /\ runs[r].pc = "raf"
           /\ now - runs[r].lastFrameTime < FrameTime(runs[r].fps)
    /\ now' = now + 1
    /\ calls' = <<>>
    /\ UNCHANGED <<auxVars, videoDuration, fpsValue, projVars, isGenerating,
                   activeGenerationId, uiLocked, animationStartTime,
                   previewVars, runs, renderVars>>

\* No stopGeneration: the Generate button is only used to start a run.  The
\* controls that lockUI leaves enabled may be operated.
NextLive ==
    \/ GenerateVideo
    \/ \E r \in RunIds : AnimateVideo(r)
    \/ \E r \in RunIds : Animate(r)
    \/ \E r \in RunIds : Settle(r)
    \/ \E r \in RunIds : Finally(r)
    \/ ChangeIntensity
    \/ Advance

\* requestAnimationFrame callbacks, timers and awaited promises are
\* eventually run, and the clock keeps advancing
Fairness ==
    /\ WF_vars(Advance)
    /\ \A r \in RunIds :
           /\ WF_vars(AnimateVideo(r))
           /\ WF_vars(Animate(r))
           /\ WF_vars(Settle(r))
           /\ WF_vars(Finally(r))

SpecLive == Init /\ [][NextLive]_vars /\ Fairness

\* C29: with callbacks that keep firing, a clock that keeps advancing and
\* no cancel, a Running run with totalFrames > 0 eventually emits its last
\* frame, and its cleanup then leaves the system Idle: not generating, the
\* controls unlocked.
C29_RunTerminates ==
    \A r \in RunIds :
        (Running(r) /\ runs[r].totalFrames > 0) ~>
            (/\ runs[r].pc = "done"
             /\ Len(runs[r].emitted) = runs[r].totalFrames
             /\ ~isGenerating
             /\ ~uiLocked)

\* ===================================================================
\* Imports that a resetProject overtakes
\* ===================================================================

\* the clip of `id` is part of the project: on the timeline or in the cache
InProject(items, cache, id) ==
    \/ \E i \in 1..Len(items) : items[i].id = id
    \/ id \in DOMAIN cache

\* C30: an import that was in flight when resetProject ran adds neither
\* its clip to mediaItems nor its frames to videoFrameCache when it
\* completes afterwards.
C30_ResetDropsImportsInFlight ==
    [][\A videoData \in pendingVideos :
           (videoData.id \in staleImports /\ videoData \notin pendingVideos')
               => ~InProject(mediaItems', videoFrameCache', videoData.id)]_vars

====
